---- MODULE Spec2Model ----
(***************************************************************************)
(* The word drill of ReadingGame (src/src/components/WordsGame.tsx).       *)
(* The file holds three versions of the WordsGame component:               *)
(*   "typeahead"  lines   81-511  (key buffer, immediate advance)          *)
(*   "delayed"    lines  583-892  (1.5 s delay before every advance)       *)
(*   "immediate"  lines  923-1156 (no buffer, no delay, on-screen keys)    *)
(* The variable variant says which component is mounted.                   *)
(*                                                                         *)
(* One action is one task of the browser event loop: a key event or a      *)
(* timer callback, run to completion, followed by the React render of the  *)
(* state updates it queued and by the effects of that render.  Time is in  *)
(* milliseconds and is kept relative: timers hold the time left, buffered  *)
(* keys hold their age.                                                    *)
(***************************************************************************)
EXTENDS Integers, Sequences, FiniteSets, TLC

VARIABLES
  variant,              \* which WordsGame component is mounted
  wordIndex,            \* useState wordIndex
  phase,                \* useState phase
  typedBuffer,          \* useState typedBuffer (sequence of letters)
  blendHighlightStep,   \* useState blendHighlightStep
  typingCurrentIndex,   \* useState typingCurrentIndex
  showImage,            \* useState showImage
  keyBuffer,            \* keyBufferRef.current: sequence of [key, age]
  lastKey,              \* lastKeyRef.current: NoKey or [key, age]
  lastAuto,             \* lastAutoRef.current
  autoCleanup,          \* TRUE iff the last run of the auto-pronounce effect returned its cleanup
  timers,               \* pending window.setTimeout callbacks, in registration order
  blendClock,           \* history: time since the current blend_prefix phase was entered, 0 outside it
  inOrder,              \* history: letters pressed since TypePrefix(k) was entered, if they are the prefix in order; -1 otherwise
  accepted,             \* history: correct cues since the phase was entered (-1: not counted)
  announcement,         \* useState announcement and how long it has been set (text "off": left out)
  audio,                \* what the audio started last is doing ("off": the audio outcomes are left out)
  arrivals,             \* history: the set of letters pressed since TypePrefix(k) was entered, if each is in the prefix and was pressed once; Spoiled otherwise
  ev,                   \* history: what the last task was and what it did
  lgTarget,             \* LetterGame: useState target
  lgFlash,              \* LetterGame: useState flash
  items,                \* makeExhaustiveDeck: the items the deck was made of
  deck,                 \* makeExhaustiveDeck: the deck array; pop() takes its last element
  dealt,                \* history: what next() returned in the current run of n calls
  clip,                 \* one playClip call: the Audio elements it made, the calls of resolve
  letterSound,          \* playLetterSound: the cached element of a letter and the calls in progress
  sfx,                  \* playSoundEffect: currentCorrectAudio / currentWrongAudio and the elements made
  norm                  \* normalize-audio.mjs: one run of the tool and the files it works on

\* the variables of the audio functions
media == <<clip, letterSound, sfx>>

\* the variables of the components other than WordsGame
outside == <<lgTarget, lgFlash, items, deck, dealt, media, norm>>

\* the announcement and the count of accepted keys
tracked == <<accepted, announcement>>

vars == <<variant, wordIndex, phase, typedBuffer, blendHighlightStep,
          typingCurrentIndex, showImage, keyBuffer, lastKey, lastAuto,
          autoCleanup, timers, blendClock, inOrder, arrivals, audio, ev,
          outside, tracked>>

----------------------------------------------------------------------------
\* Program constants of the key buffer
BUFFER_MAX == 16
BUFFER_ITEM_TTL_MS == 3000
KEY_REPEAT_GUARD_MS == 30

\* Bounds of the model
MaxBuf == 3          \* a key is pressed only while the key buffer holds fewer entries than this
MaxPending == 2      \* a correct key is pressed only while fewer delayed-advance timers are pending
MaxItems == 4        \* a deck is made of at most this many items
MaxCalls == 3        \* playLetterSound is called at most this many times for the letter
ManyFiles == 5       \* the runs that need a second batch are over this many files
AcceptCap == 4       \* the count of accepted keys of a phase stops here
MaxClears == 2       \* with announcements, a key is pressed only while fewer clear timers are pending
MaxFiles == 2        \* public/audio holds at most this many audio files
MaxSfx == 1          \* playSoundEffect makes a new first-format element at most this many times

\* e.key values tried while word wi is shown: its letters in lower case, its
\* first letter in upper case, a letter outside the word, and a non-letter
RawKeys(wi) == IF wi = 0 THEN {"d", "o", "g", "D", "x", "1"}
               ELSE {"c", "a", "t", "C", "x", "1"}
\* free waits tried, besides waiting for the next timer
Waits == {1000}

\* Program constants
StepMs == 1000            \* spacing of the blend animation timers
TransitionMs == 100       \* nested timer from "red" to type_prefix
AdvanceDelayMs == 1500    \* delayed variant: wait before advancing
ClearMs == 1000           \* the announcement is cleared after this
ResetDelayMs == 350       \* immediate variant: wait before resetForNext
FlashMs == 350            \* LetterGame: wait before the flash ends

LETTERS == {"A","B","C","D","E","F","G","H","I","J","K","L","M",
            "N","O","P","Q","R","S","T","U","V","W","X","Y","Z"}
WORDS == << <<"D","O","G">>, <<"C","A","T">> >>

LowerToUpper == [c \in {"d","o","g","c","a","t","x"} |->
                   CASE c = "d" -> "D" [] c = "o" -> "O" [] c = "g" -> "G"
                     [] c = "c" -> "C" [] c = "a" -> "A" [] c = "t" -> "T"
                     [] c = "x" -> "X"]
toUpperCase(ch) == IF ch \in DOMAIN LowerToUpper THEN LowerToUpper[ch] ELSE ch

\* Phases
ClickLetter(i) == [type |-> "click_letter", n |-> i]
BlendPrefix(k) == [type |-> "blend_prefix", n |-> k]
TypePrefix(k)  == [type |-> "type_prefix", n |-> k]
Phases == {ClickLetter(i) : i \in 0..2} \cup {BlendPrefix(k) : k \in 2..3}
            \cup {TypePrefix(k) : k \in 2..3}

NoKey == [key |-> "", age |-> 0]
NoLetter == ""
NoSig == [word |-> -1, type |-> "", n |-> -1]

word(wi) == WORDS[wi + 1]
letters(wi) == word(wi)
Prefix(wi, k) == SubSeq(letters(wi), 1, k)

\* the key of the auto-pronounce effect: `${word}:${phase.type}:${index}`
AutoKey(wi, p) == [word |-> wi, type |-> p.type, n |-> p.n]

----------------------------------------------------------------------------
\* Timers.  kind: "step" (a = i), "red" (a = k), "transition" (a = k),
\* "drain" (cp = phase of the render that scheduled it), "advClick"
\* (cp = phase of the handler's render), "advType" (cp, a = typingCurrentIndex
\* of the handler's render), "reset".  inRef: the id is in blendTimeoutsRef.
\* stale (history): the phase changed or the word was reset after scheduling.
Timer(kind, rem, a, cp, inRef) ==
  [kind |-> kind, rem |-> rem, a |-> a, cp |-> cp, inRef |-> inRef, stale |-> FALSE]

clearBlendTimeouts(ts) == SelectSeq(ts, LAMBDA t : ~t.inRef)

RemoveAt(s, i) == SubSeq(s, 1, i - 1) \o SubSeq(s, i + 1, Len(s))

Due == {i \in 1..Len(timers) : timers[i].rem = 0}
FirstDue == CHOOSE i \in Due : \A j \in Due : i <= j

Min(S) == CHOOSE x \in S : \A y \in S : x <= y

Cap(x, m) == IF x > m THEN m ELSE x

\* The refs of the type-ahead variant hold the committed state: the sync
\* effects copy every state into its ref after each render.
phaseRef == phase
typingCurrentIndexRef == typingCurrentIndex
typedBufferRef == typedBuffer
lettersRef == letters(wordIndex)

\* The state a task works on: the committed state plus what the task queued.
\*   phaseSet  setPhase was called (a new object: the effects depending on phase re-run)
\*   complete  k if the updater of handleCorrectType found the prefix complete, else 0
\*   reset     resetForNext ran
\*   correct, wrong   feedback cues played (playSoundEffect)
\*   typedAtK         the typed buffer queued when the prefix was found complete
\*   consumedAge      greatest age of a key that processBuffer consumed, -1 if none
\*   purged           number of entries that pruneBuffer removed
\*   entryAudio       entry audio started by the auto-pronounce effect (playLetterSound, playClip)
\*   judged           the expected letter of each scan of processBuffer that consumed a key
Cur == [phase |-> phase, typed |-> typedBuffer, idx |-> typingCurrentIndex,
        step |-> blendHighlightStep, show |-> showImage, word |-> wordIndex,
        buf |-> keyBuffer, last |-> lastKey, timers |-> timers,
        lastAuto |-> lastAuto, hasCleanup |-> autoCleanup,
        phaseSet |-> FALSE, complete |-> 0, reset |-> FALSE,
        correct |-> 0, wrong |-> 0, typedAtK |-> <<>>,
        consumedAge |-> -1, purged |-> 0, entryAudio |-> 0,
        judged |-> <<>>]

----------------------------------------------------------------------------
\* Type-ahead variant: the key buffer

\* Mutant of pruneBuffer: an entry aged exactly the TTL is kept
pruneBuffer_keepsAtTTL(buf) == SelectSeq(buf, LAMBDA e : e.age <= BUFFER_ITEM_TTL_MS)

pruneBuffer(buf) == SelectSeq(buf, LAMBDA e : e.age < BUFFER_ITEM_TTL_MS)

\* Mutant of addToBuffer: the repeat guard also drops a repeat that comes
\* exactly KEY_REPEAT_GUARD_MS after the recorded key
addToBuffer_guardInclusive(s, key) ==
  LET b == pruneBuffer(s.buf)
      s0 == [s EXCEPT !.purged = @ + Len(s.buf) - Len(b)]
  IN
  IF s.last # NoKey /\ s.last.key = key /\ s.last.age <= KEY_REPEAT_GUARD_MS
  THEN [s0 EXCEPT !.buf = b]
  ELSE LET b2 == IF Len(b) >= BUFFER_MAX THEN Tail(b) ELSE b IN
       [s0 EXCEPT !.buf = Append(b2, [key |-> key, age |-> 0]),
                  !.last = [key |-> key, age |-> 0]]

\* Mutant of addToBuffer: the oldest entry is not dropped at capacity
addToBuffer_noShift(s, key) ==
  LET b == pruneBuffer(s.buf)
      s0 == [s EXCEPT !.purged = @ + Len(s.buf) - Len(b)]
  IN
  IF s.last # NoKey /\ s.last.key = key /\ s.last.age < KEY_REPEAT_GUARD_MS
  THEN [s0 EXCEPT !.buf = b]
  ELSE [s0 EXCEPT !.buf = Append(b, [key |-> key, age |-> 0]),
                  !.last = [key |-> key, age |-> 0]]

addToBuffer(s, key) ==
  LET b == pruneBuffer(s.buf)
      s0 == [s EXCEPT !.purged = @ + Len(s.buf) - Len(b)]
  IN
  IF s.last # NoKey /\ s.last.key = key /\ s.last.age < KEY_REPEAT_GUARD_MS
  THEN [s0 EXCEPT !.buf = b]
  ELSE LET b2 == IF Len(b) >= BUFFER_MAX THEN Tail(b) ELSE b IN
       [s0 EXCEPT !.buf = Append(b2, [key |-> key, age |-> 0]),
                  !.last = [key |-> key, age |-> 0]]

getExpectedLetter ==
  IF phaseRef.type = "click_letter" THEN lettersRef[phaseRef.n + 1]
  ELSE IF phaseRef.type = "type_prefix"
       THEN IF typingCurrentIndexRef < phaseRef.n
            THEN lettersRef[typingCurrentIndexRef + 1] ELSE NoLetter
       ELSE NoLetter

\* cp is the `phase` of the render whose closure is running
advanceToNextPhase(s, cp) ==
  IF cp.type = "click_letter"
  THEN [s EXCEPT !.phase = IF cp.n = 0 THEN ClickLetter(1)
                           ELSE IF cp.n = 1 THEN BlendPrefix(2) ELSE BlendPrefix(3),
                 !.typed = <<>>, !.phaseSet = TRUE]
  ELSE s

handleCorrectLetterClick(s, cp) ==
  advanceToNextPhase([s EXCEPT !.correct = @ + 1], cp)

\* Mutant of handleCorrectType: appends to the typed buffer of the first
\* render (the stale closure that typedBufferRef is there to avoid)
handleCorrectType_staleBuffer(s, ch) ==
  LET nextBuffer == << toUpperCase(ch) >>
      nextIndex == s.idx + 1
      done == phaseRef.type = "type_prefix" /\ nextIndex = phaseRef.n
  IN [s EXCEPT !.correct = @ + 1, !.typed = nextBuffer, !.idx = nextIndex,
               !.complete = IF done THEN phaseRef.n ELSE @,
               !.typedAtK = IF done THEN nextBuffer ELSE @]

\* setTypedBuffer(ref + ch) is queued; the updater of setTypingCurrentIndex
\* runs in the render, on the value the earlier updaters of the task left.
handleCorrectType(s, ch) ==
  LET nextBuffer == [i \in 1..(Len(typedBufferRef) + 1) |->
                       toUpperCase(Append(typedBufferRef, ch)[i])]
      nextIndex == s.idx + 1
      done == phaseRef.type = "type_prefix" /\ nextIndex = phaseRef.n
  IN [s EXCEPT !.correct = @ + 1, !.typed = nextBuffer, !.idx = nextIndex,
               !.complete = IF done THEN phaseRef.n ELSE @,
               !.typedAtK = IF done THEN nextBuffer ELSE @]

\* Mutant of FirstMatch: the oldest entry is taken whatever its key
FirstMatch_oldestEntry(b, ch) == IF Len(b) = 0 THEN 0 ELSE 1

FirstMatch(b, ch) ==
  LET M == {i \in 1..Len(b) : b[i].key = ch} IN IF M = {} THEN 0 ELSE Min(M)

RECURSIVE processBuffer(_, _)
processBuffer(s, cp) ==
  LET b == pruneBuffer(s.buf)
      expected == getExpectedLetter
      i == FirstMatch(b, expected)
  IN IF expected = NoLetter \/ i = 0
     THEN [s EXCEPT !.buf = b, !.purged = @ + Len(s.buf) - Len(b)]
     ELSE LET s1 == [s EXCEPT !.buf = RemoveAt(b, i),
                              !.purged = @ + Len(s.buf) - Len(b),
                              !.consumedAge = IF b[i].age > @ THEN b[i].age ELSE @,
                              !.judged = Append(@, expected)]
              s2 == IF phaseRef.type = "click_letter" THEN handleCorrectLetterClick(s1, cp)
                    ELSE IF phaseRef.type = "type_prefix" THEN handleCorrectType(s1, expected)
                    ELSE s1
          IN processBuffer(s2, cp)

\* Mutant of resetForNext: the key buffer and the repeat-guard record are
\* left as they are
resetForNext_keepsKeys(s) ==
  [s EXCEPT !.timers = clearBlendTimeouts(@),
            !.word = (@ + 1) % Len(WORDS), !.phase = ClickLetter(0),
            !.typed = <<>>, !.idx = 0, !.step = 0, !.lastAuto = NoSig,
            !.show = FALSE, !.phaseSet = TRUE, !.reset = TRUE]

resetForNext(s) ==
  [s EXCEPT !.timers = clearBlendTimeouts(@), !.buf = <<>>, !.last = NoKey,
            !.word = (@ + 1) % Len(WORDS), !.phase = ClickLetter(0),
            !.typed = <<>>, !.idx = 0, !.step = 0, !.lastAuto = NoSig,
            !.show = FALSE, !.phaseSet = TRUE, !.reset = TRUE]

\* Mutant of RenderPhaseUpdates: the k = 2 branch leaves out
\* setTypingCurrentIndex(0)
RenderPhaseUpdates_noIndexReset(s) ==
  IF s.complete = 2
  THEN [s EXCEPT !.phase = ClickLetter(2), !.typed = <<>>,
                 !.show = FALSE, !.phaseSet = TRUE]
  ELSE IF s.complete = 3 THEN resetForNext([s EXCEPT !.show = FALSE])
  ELSE s

\* The updates the updater of handleCorrectType queued while rendering
RenderPhaseUpdates(s) ==
  IF s.complete = 2
  THEN [s EXCEPT !.phase = ClickLetter(2), !.typed = <<>>, !.idx = 0,
                 !.show = FALSE, !.phaseSet = TRUE]
  ELSE IF s.complete = 3 THEN resetForNext([s EXCEPT !.show = FALSE])
  ELSE s

----------------------------------------------------------------------------
\* Effects of a render

\* Mutant of BlendTimers: the red timer is scheduled one second early
BlendTimers_redEarly(k) ==
  [i \in 1..k |-> Timer("step", (i - 1) * StepMs, i - 1, BlendPrefix(k), TRUE)]
    \o << Timer("red", (k - 1) * StepMs, k, BlendPrefix(k), TRUE) >>

BlendTimers(k) ==
  [i \in 1..k |-> Timer("step", (i - 1) * StepMs, i - 1, BlendPrefix(k), TRUE)]
    \o << Timer("red", k * StepMs, k, BlendPrefix(k), TRUE) >>

\* Mutant of autoPronounce: no comparison with lastAutoRef, the effect runs
\* in full whenever setPhase was called
autoPronounce_noSignatureCheck(s) ==
  IF ~s.phaseSet THEN s
  ELSE LET s0 == IF s.hasCleanup THEN [s EXCEPT !.timers = clearBlendTimeouts(@)] ELSE s
           key == AutoKey(s0.word, s0.phase)
       IN IF s0.phase.type = "blend_prefix"
               THEN [s0 EXCEPT !.lastAuto = key, !.hasCleanup = TRUE,
                               !.entryAudio = @ + 1,
                               !.show = IF s0.phase.n = 3 /\ variant # "immediate" THEN TRUE ELSE @,
                               !.step = 0,
                               !.timers = clearBlendTimeouts(@) \o BlendTimers(s0.phase.n)]
               ELSE [s0 EXCEPT !.lastAuto = key, !.hasCleanup = TRUE,
                               !.entryAudio = IF s0.phase.type = "click_letter" THEN @ + 1 ELSE @]

\* Mutant of autoPronounce: the illustration is shown in every blend phase,
\* without the test phase.k === 3
autoPronounce_showEveryBlend(s) ==
  IF ~s.phaseSet THEN s
  ELSE LET s0 == IF s.hasCleanup THEN [s EXCEPT !.timers = clearBlendTimeouts(@)] ELSE s
           key == AutoKey(s0.word, s0.phase)
       IN IF s0.lastAuto = key THEN [s0 EXCEPT !.hasCleanup = FALSE]
          ELSE IF s0.phase.type = "blend_prefix"
               THEN [s0 EXCEPT !.lastAuto = key, !.hasCleanup = TRUE,
                               !.entryAudio = @ + 1,
                               !.show = IF variant # "immediate" THEN TRUE ELSE @,
                               !.step = 0,
                               !.timers = clearBlendTimeouts(@) \o BlendTimers(s0.phase.n)]
               ELSE [s0 EXCEPT !.lastAuto = key, !.hasCleanup = TRUE,
                               !.entryAudio = IF s0.phase.type = "click_letter" THEN @ + 1 ELSE @]

autoPronounce(s) ==
  IF ~s.phaseSet THEN s
  ELSE LET s0 == IF s.hasCleanup THEN [s EXCEPT !.timers = clearBlendTimeouts(@)] ELSE s
           key == AutoKey(s0.word, s0.phase)
       IN IF s0.lastAuto = key THEN [s0 EXCEPT !.hasCleanup = FALSE]
          ELSE IF s0.phase.type = "blend_prefix"
               THEN [s0 EXCEPT !.lastAuto = key, !.hasCleanup = TRUE,
                               !.entryAudio = @ + 1,
                               !.show = IF s0.phase.n = 3 /\ variant # "immediate" THEN TRUE ELSE @,
                               !.step = 0,
                               !.timers = clearBlendTimeouts(@) \o BlendTimers(s0.phase.n)]
               ELSE [s0 EXCEPT !.lastAuto = key, !.hasCleanup = TRUE,
                               !.entryAudio = IF s0.phase.type = "click_letter" THEN @ + 1 ELSE @]

\* Mutant of drainEffect: the dependency list holds the phase only, so a
\* change of the typing index alone schedules no drain pass
drainEffect_phaseOnly(s) ==
  IF variant = "typeahead" /\ s.phaseSet
  THEN [s EXCEPT !.timers = SelectSeq(@, LAMBDA t : t.kind # "drain")
                              \o << Timer("drain", 0, 0, s.phase, FALSE) >>]
  ELSE s

\* Mutant of drainEffect: the dependency list lacks the phase, so a change
\* of phase alone schedules no drain pass
drainEffect_noPhaseDep(s) ==
  IF variant = "typeahead"
     /\ (s.idx # typingCurrentIndex \/ s.word # wordIndex \/ s.typed # typedBuffer)
  THEN [s EXCEPT !.timers = SelectSeq(@, LAMBDA t : t.kind # "drain")
                              \o << Timer("drain", 0, 0, s.phase, FALSE) >>]
  ELSE s

drainEffect(s) ==
  IF variant = "typeahead"
     /\ (s.phaseSet \/ s.idx # typingCurrentIndex \/ s.word # wordIndex
           \/ s.typed # typedBuffer)
  THEN [s EXCEPT !.timers = SelectSeq(@, LAMBDA t : t.kind # "drain")
                              \o << Timer("drain", 0, 0, s.phase, FALSE) >>]
  ELSE s

\* history: timers that outlive a change of phase or a reset are stale
MarkStale(s) ==
  IF s.phase # phase \/ s.word # wordIndex \/ s.reset
  THEN [s EXCEPT !.timers = [i \in 1..Len(@) |-> [@[i] EXCEPT !.stale = TRUE]]]
  ELSE s

\* history record of a task: what ran (kind, key, tk, stale), the feedback
\* cues it played (correct, wrong), whether it completed TypePrefix(k)
\* (complete = k), the typed buffer at that moment (typedAtK), whether the
\* keys pressed since TypePrefix(k) was entered were exactly its k letters in
\* order (ordered) or in any order, each once (perm), whether resetForNext
\* ran (reset), whether setPhase was called (phaseSet), the greatest age of a
\* consumed key (consumedAge), the number of expired entries removed (purged)
\* the entry audio started (entryAudio) and the expected letter each
\* consuming scan of processBuffer compared with (judged)
Event(kind, key, tk, stale, s, ordered, perm) ==
  [kind |-> kind, key |-> key, tk |-> tk, stale |-> stale,
   correct |-> s.correct, wrong |-> s.wrong, complete |-> s.complete,
   typedAtK |-> s.typedAtK, reset |-> s.reset, ordered |-> ordered,
   perm |-> perm, phaseSet |-> s.phaseSet, consumedAge |-> s.consumedAge,
   purged |-> s.purged, entryAudio |-> s.entryAudio, judged |-> s.judged]

NoTask == [correct |-> 0, wrong |-> 0, complete |-> 0, typedAtK |-> <<>>,
           reset |-> FALSE, ordered |-> FALSE, perm |-> FALSE, phaseSet |-> FALSE,
           consumedAge |-> -1, purged |-> 0, entryAudio |-> 0,
        judged |-> <<>>]

\* history: a letter outside the prefix arrived, or a letter arrived twice
Spoiled == {"?"}

PrefixLetters(wi, k) == {letters(wi)[i] : i \in 1..k}

\* history: the arrivals after a task of kind e.kind with key e.key
Arrived(e) ==
  IF e.kind = "key" /\ phase.type = "type_prefix"
  THEN IF arrivals = Spoiled \/ e.key \in arrivals
          \/ e.key \notin PrefixLetters(wordIndex, phase.n)
       THEN Spoiled ELSE arrivals \cup {e.key}
  ELSE arrivals

\* The outcomes of an audio call (playLetterSound, playClip, playSoundEffect):
\* the clip starts playing; loading or play() fails; playback fails and
\* speech synthesis is used instead; or nothing ever comes back.
AudioOutcomes == {"playing", "failed", "speech", "never"}

\* the audio after a task: any outcome if the task or its effects made an
\* audio call, else unchanged
AudioAfter(r) ==
  IF audio = "off" THEN {"off"}
  ELSE IF r.correct + r.wrong + r.entryAudio > 0 THEN AudioOutcomes
  ELSE {audio}

\* The announcement is empty
NoAnnouncement == [text |-> "", shown |-> 0]

\* setAnnouncement(text) with setTimeout(() => setAnnouncement(""), 1000),
\* once with each feedback cue of the type-ahead and the delayed-advance
\* variants: the timers, as the handlers of the task registered them
Announce(s) ==
  IF announcement.text = "off" \/ variant = "immediate" THEN s
  ELSE [s EXCEPT !.timers = @ \o [i \in 1..(s.correct + s.wrong) |->
                                    Timer("clear", ClearMs, 0, phase, FALSE)]]

\* the announcement after the render: "" if resetForNext ran (its
\* setAnnouncement("") comes last), else the text of the task's cue, "" after
\* a clear timer, else what it was
AnnouncementAfter(r, e) ==
  IF announcement.text = "off" \/ variant = "immediate" THEN announcement
  ELSE IF r.reset THEN NoAnnouncement
  ELSE IF r.correct > 0 THEN [text |-> "Correct", shown |-> 0]
  ELSE IF r.wrong > 0 THEN [text |-> "Try again", shown |-> 0]
  ELSE IF e.kind = "timer" /\ e.tk = "clear" THEN NoAnnouncement
  ELSE announcement

\* A task that returns before it touches anything
Ignored(e) ==
  /\ ev' = e @@ NoTask
  /\ UNCHANGED <<variant, wordIndex, phase, typedBuffer, blendHighlightStep,
                 typingCurrentIndex, showImage, keyBuffer, lastKey, lastAuto,
                 autoCleanup, timers, blendClock, inOrder, arrivals, audio,
                 outside, tracked>>

\* Render the task's updates, run the effects, and store the result
Commit(s, e, io) ==
  LET r == drainEffect(autoPronounce(MarkStale(Announce(s)))) IN
  /\ wordIndex' = r.word
  /\ phase' = r.phase
  /\ typedBuffer' = r.typed
  /\ blendHighlightStep' = r.step
  /\ typingCurrentIndex' = r.idx
  /\ showImage' = r.show
  /\ keyBuffer' = r.buf
  /\ lastKey' = r.last
  /\ lastAuto' = r.lastAuto
  /\ autoCleanup' = r.hasCleanup
  /\ timers' = r.timers
  /\ inOrder' = IF r.phase # phase \/ r.reset THEN 0 ELSE io
  /\ blendClock' = IF r.phase # phase \/ r.phase.type # "blend_prefix" THEN 0 ELSE blendClock
  /\ arrivals' = IF r.phase # phase \/ r.reset THEN {} ELSE Arrived(e)
  /\ audio' \in AudioAfter(r)
  /\ accepted' = IF accepted = -1 THEN -1
                 ELSE IF r.phase # phase \/ r.word # wordIndex \/ r.reset THEN 0
                 ELSE Cap(accepted + r.correct, AcceptCap)
  /\ announcement' = AnnouncementAfter(r, e)
  /\ ev' = Event(e.kind, e.key, e.tk, e.stale, r,
                 phase.type = "type_prefix" /\ r.complete = phase.n /\ io = phase.n,
                 /\ phase.type = "type_prefix" /\ r.complete = phase.n
                 /\ Arrived(e) = PrefixLetters(wordIndex, phase.n))
  /\ UNCHANGED <<variant, outside>>

----------------------------------------------------------------------------
\* The announcement is left out and the accepted keys are not counted
Untracked == accepted = -1 /\ announcement = [text |-> "off", shown |-> 0]

\* No audio call is followed
NoClip == [els |-> <<>>, resolves |-> 0]
NoLetterSound == [version |-> "", el |-> "absent", error |-> FALSE, calls |-> <<>>, onended |-> 0]
NoSfx == [current |-> [correct |-> 0, wrong |-> 0], els |-> <<>>]

\* The normalizer is not run
NoRun == [pc |-> "idle"]

MediaIdle ==
  /\ clip = NoClip
  /\ letterSound = NoLetterSound
  /\ sfx = NoSfx

\* LetterGame is not mounted and no deck was made
LetterGameIdle ==
  /\ lgTarget = NoLetter
  /\ lgFlash = "none"
  /\ items = <<>>
  /\ deck = <<>>
  /\ dealt = <<>>

OutsideIdle == LetterGameIdle /\ MediaIdle /\ norm = NoRun

\* Initial state: the component is mounted, its first render and effects done
InitCommon ==
  /\ wordIndex = 0
  /\ phase = ClickLetter(0)
  /\ typedBuffer = <<>>
  /\ blendHighlightStep = 0
  /\ typingCurrentIndex = 0
  /\ showImage = FALSE
  /\ keyBuffer = <<>>
  /\ lastKey = NoKey
  /\ lastAuto = AutoKey(0, ClickLetter(0))
  /\ autoCleanup = TRUE
  /\ inOrder = 0
  /\ arrivals = {}
  /\ blendClock = 0
  /\ ev = [kind |-> "init", key |-> "", tk |-> "", stale |-> FALSE] @@ NoTask

\* WordsGame is not what is followed: it stays as first rendered
WordsGameIdle(v) ==
  /\ variant = v
  /\ timers = <<>>
  /\ audio = "off"
  /\ Untracked
  /\ InitCommon

InitTA ==
  /\ variant = "typeahead"
  /\ timers = << Timer("drain", 0, 0, ClickLetter(0), FALSE) >>
  /\ audio = "off"
  /\ Untracked
  /\ InitCommon
  /\ OutsideIdle

\* history: does pressing ch continue the prefix in order?
NextInOrder(ch) ==
  IF phase.type = "type_prefix"
  THEN IF inOrder >= 0 /\ inOrder < phase.n /\ ch = letters(wordIndex)[inOrder + 1]
       THEN inOrder + 1 ELSE -1
  ELSE inOrder

\* Bound on the keys pressed: a key is pressed while the key buffer holds
\* fewer than MaxBuf entries, or, when the buffer is within one entry of its
\* capacity, while fewer than MaxBuf keys were pressed at this instant
Fresh == Cardinality({i \in 1..Len(keyBuffer) : keyBuffer[i].age = 0})
KeyBudget ==
  \/ Len(keyBuffer) < MaxBuf
  \/ (Len(keyBuffer) >= BUFFER_MAX - 1 /\ Fresh < MaxBuf)

\* Mutant of onKey: no return in blend_prefix, and every key that is not the
\* expected letter is treated as a wrong key
onKey_noBlendGate(raw) ==
  LET ch == toUpperCase(raw)
      e == [kind |-> "key", key |-> ch, tk |-> "", stale |-> FALSE]
      expected == getExpectedLetter
  IN /\ variant = "typeahead"
     /\ KeyBudget
     /\ IF ch \notin LETTERS
        THEN Ignored(e)
        ELSE IF ch = expected
             THEN Commit(RenderPhaseUpdates(processBuffer(addToBuffer(Cur, ch), ClickLetter(0))),
                         e, NextInOrder(ch))
             ELSE Commit(addToBuffer([Cur EXCEPT !.wrong = @ + 1], ch), e, NextInOrder(ch))

\* Mutant of onKey: keys are ignored until the audio started last is over
onKey_waitsForAudio(raw) ==
  LET ch == toUpperCase(raw)
      e == [kind |-> "key", key |-> ch, tk |-> "", stale |-> FALSE]
      expected == getExpectedLetter
  IN /\ variant = "typeahead"
     /\ KeyBudget
     /\ IF ch \notin LETTERS \/ phaseRef.type = "blend_prefix" \/ expected = NoLetter
           \/ audio \in {"playing", "never"}
        THEN Ignored(e)
        ELSE IF ch = expected
             THEN Commit(RenderPhaseUpdates(processBuffer(addToBuffer(Cur, ch), ClickLetter(0))),
                         e, NextInOrder(ch))
             ELSE Commit(addToBuffer([Cur EXCEPT !.wrong = @ + 1], ch), e, NextInOrder(ch))

\* Mutant of onKey: no test LETTERS.includes(ch), every key is compared with
\* the expected letter
onKey_noLetterFilter(raw) ==
  LET ch == toUpperCase(raw)
      e == [kind |-> "key", key |-> ch, tk |-> "", stale |-> FALSE]
      expected == getExpectedLetter
  IN /\ variant = "typeahead"
     /\ KeyBudget
     /\ IF phaseRef.type = "blend_prefix" \/ expected = NoLetter
        THEN Ignored(e)
        ELSE IF ch = expected
             THEN Commit(RenderPhaseUpdates(processBuffer(addToBuffer(Cur, ch), ClickLetter(0))),
                         e, NextInOrder(ch))
             ELSE Commit(addToBuffer([Cur EXCEPT !.wrong = @ + 1], ch), e, NextInOrder(ch))

\* onKey of the type-ahead variant.  Its closure is the one of the first
\* render (the keydown effect has an empty dependency list), so the `phase`
\* that advanceToNextPhase reads there is the initial phase.
onKey(raw) ==
  LET ch == toUpperCase(raw)
      e == [kind |-> "key", key |-> ch, tk |-> "", stale |-> FALSE]
      expected == getExpectedLetter
  IN /\ variant = "typeahead"
     /\ KeyBudget
     /\ IF ch \notin LETTERS \/ phaseRef.type = "blend_prefix" \/ expected = NoLetter
        THEN Ignored(e)
        ELSE IF ch = expected
             THEN Commit(RenderPhaseUpdates(processBuffer(addToBuffer(Cur, ch), ClickLetter(0))),
                         e, NextInOrder(ch))
             ELSE Commit(addToBuffer([Cur EXCEPT !.wrong = @ + 1], ch), e, NextInOrder(ch))

----------------------------------------------------------------------------
\* Timer callbacks.  The earliest-registered due timer runs first.

FireGuard(kind) ==
  /\ Due # {}
  /\ timers[FirstDue].kind = kind

Fired == [Cur EXCEPT !.timers = RemoveAt(@, FirstDue)]
TimerEvent == [kind |-> "timer", key |-> "", tk |-> timers[FirstDue].kind,
               stale |-> timers[FirstDue].stale]

\* setBlendHighlightStep(i + 1)
BlendStepTimer ==
  /\ FireGuard("step")
  /\ Commit([Fired EXCEPT !.step = timers[FirstDue].a + 1], TimerEvent, inOrder)

\* setBlendHighlightStep(k + 1) and the nested setTimeout(..., 100)
RedTimer ==
  /\ FireGuard("red")
  /\ LET k == timers[FirstDue].a IN
     Commit([Fired EXCEPT !.step = k + 1,
                          !.timers = Append(@, Timer("transition", TransitionMs, k,
                                                     BlendPrefix(k), FALSE))],
            TimerEvent, inOrder)

\* the nested timer: setPhase(type_prefix k), typed buffer and index reset
TransitionTimer ==
  /\ FireGuard("transition")
  /\ LET k == timers[FirstDue].a IN
     Commit([Fired EXCEPT !.phase = TypePrefix(k), !.phaseSet = TRUE,
                          !.typed = <<>>, !.idx = 0,
                          !.show = IF k # 3 THEN FALSE ELSE @],
            TimerEvent, inOrder)

\* the drain effect's setTimeout(() => processBuffer(), 0)
DrainTimer ==
  /\ FireGuard("drain")
  /\ Commit(RenderPhaseUpdates(processBuffer(Fired, timers[FirstDue].cp)), TimerEvent, inOrder)

\* Time passes: by a free step, or up to the next timer
ClockCap == 3 * StepMs + TransitionMs + 1000   \* the stopwatch stops here

Advance(d) ==
  /\ d > 0
  /\ \A i \in 1..Len(timers) : timers[i].rem >= d
  /\ timers' = [i \in 1..Len(timers) |-> [timers[i] EXCEPT !.rem = @ - d]]
  /\ keyBuffer' = [i \in 1..Len(keyBuffer) |->
                     [keyBuffer[i] EXCEPT !.age = Cap(@ + d, BUFFER_ITEM_TTL_MS)]]
  /\ lastKey' = IF lastKey = NoKey THEN NoKey
                ELSE [lastKey EXCEPT !.age = Cap(@ + d, KEY_REPEAT_GUARD_MS)]
  /\ ev' = [kind |-> "advance", key |-> "", tk |-> "", stale |-> FALSE] @@ NoTask
  /\ blendClock' = IF phase.type = "blend_prefix" THEN Cap(blendClock + d, ClockCap) ELSE 0
  /\ announcement' = IF announcement.text = "off" \/ announcement.text = "" THEN announcement
                     ELSE [announcement EXCEPT !.shown = Cap(@ + d, ClearMs)]
  /\ UNCHANGED <<variant, wordIndex, phase, typedBuffer, blendHighlightStep,
                 typingCurrentIndex, showImage, lastAuto, autoCleanup, inOrder,
                 arrivals, audio, outside, accepted>>

NextTimerIn == {timers[i].rem : i \in 1..Len(timers)}

Tick ==
  \E d \in Waits \cup NextTimerIn : Advance(d)

\* Time passes by less than the repeat guard: 29 ms after a key was
\* recorded, then 1 ms more.  Tried while no timer is pending and every
\* buffered key is younger than the guard.
FineWaits == {KEY_REPEAT_GUARD_MS - 1, 1}

FineTick ==
  /\ variant = "typeahead"
  /\ timers = <<>>
  /\ lastKey # NoKey
  /\ \A i \in 1..Len(keyBuffer) : keyBuffer[i].age < KEY_REPEAT_GUARD_MS
  /\ \E d \in FineWaits :
        /\ lastKey.age + d \in {KEY_REPEAT_GUARD_MS - 1, KEY_REPEAT_GUARD_MS}
        /\ Advance(d)

----------------------------------------------------------------------------
\* Delayed-advance variant (lines 583-892).  Its keydown effect depends on
\* every state the handlers read, so the handlers see the committed state.

PendingAdvances == Len(SelectSeq(timers, LAMBDA t : t.kind \in {"advClick", "advType"}))

resetForNext_delayed(s) ==
  [s EXCEPT !.timers = clearBlendTimeouts(@),
            !.word = (@ + 1) % Len(WORDS), !.phase = ClickLetter(0),
            !.typed = <<>>, !.idx = 0, !.step = 0, !.lastAuto = NoSig,
            !.show = FALSE, !.phaseSet = TRUE, !.reset = TRUE]

handleLetterClick_delayed(s, ch) ==
  IF phase.type # "click_letter" THEN s
  ELSE IF ch # letters(wordIndex)[phase.n + 1] THEN [s EXCEPT !.wrong = @ + 1]
  ELSE [s EXCEPT !.correct = @ + 1,
                 !.timers = Append(@, Timer("advClick", AdvanceDelayMs, 0, phase, FALSE))]

\* Mutant of handleType_delayed: the expected letter is read one position
\* too far
handleType_delayed_offByOne(s, ch) ==
  IF phase.type # "type_prefix" THEN s
  ELSE LET target == Prefix(wordIndex, phase.n)
           expectedLetter == IF typingCurrentIndex + 1 < Len(target)
                             THEN target[typingCurrentIndex + 2] ELSE NoLetter
           pressed == toUpperCase(ch)
       IN IF pressed # expectedLetter THEN [s EXCEPT !.wrong = @ + 1]
          ELSE [s EXCEPT !.correct = @ + 1,
                         !.typed = [i \in 1..(Len(typedBuffer) + 1) |->
                                      toUpperCase(Append(typedBuffer, ch)[i])],
                         !.timers = Append(@, Timer("advType", AdvanceDelayMs,
                                                    typingCurrentIndex, phase, FALSE))]

handleType_delayed(s, ch) ==
  IF phase.type # "type_prefix" THEN s
  ELSE LET target == Prefix(wordIndex, phase.n)
           expectedLetter == IF typingCurrentIndex < Len(target)
                             THEN target[typingCurrentIndex + 1] ELSE NoLetter
           pressed == toUpperCase(ch)
       IN IF pressed # expectedLetter THEN [s EXCEPT !.wrong = @ + 1]
          ELSE [s EXCEPT !.correct = @ + 1,
                         !.typed = [i \in 1..(Len(typedBuffer) + 1) |->
                                      toUpperCase(Append(typedBuffer, ch)[i])],
                         !.timers = Append(@, Timer("advType", AdvanceDelayMs,
                                                    typingCurrentIndex, phase, FALSE))]

onKey_delayed(raw) ==
  LET ch == toUpperCase(raw)
      e == [kind |-> "key", key |-> ch, tk |-> "", stale |-> FALSE]
  IN /\ variant = "delayed"
     /\ PendingAdvances < MaxPending
     /\ IF ch \notin LETTERS
        THEN Ignored(e)
        ELSE IF phase.type = "click_letter"
             THEN Commit(handleLetterClick_delayed(Cur, ch), e, NextInOrder(ch))
             ELSE IF phase.type = "type_prefix"
                  THEN Commit(handleType_delayed(Cur, ch), e, NextInOrder(ch))
                  ELSE Commit(Cur, e, NextInOrder(ch))

\* the 1.5 s timer of handleLetterClick; cp is the phase of the handler's render
ClickAdvanceTimer ==
  /\ FireGuard("advClick")
  /\ LET cp == timers[FirstDue].cp IN
     Commit([Fired EXCEPT !.phase = IF cp.n = 0 THEN ClickLetter(1)
                                    ELSE IF cp.n = 1 THEN BlendPrefix(2) ELSE BlendPrefix(3),
                          !.typed = <<>>, !.phaseSet = TRUE],
            TimerEvent, inOrder)

\* the 1.5 s timer of handleType; cp and a are the phase and the typing index
\* of the handler's render
TypeAdvanceTimer ==
  /\ FireGuard("advType")
  /\ LET cp == timers[FirstDue].cp
         nextIndex == timers[FirstDue].a + 1
         s1 == [Fired EXCEPT !.idx = nextIndex]
     IN IF nextIndex = cp.n
        THEN LET s2 == [s1 EXCEPT !.complete = cp.n, !.typedAtK = typedBuffer] IN
             IF cp.n = 2
             THEN Commit([s2 EXCEPT !.phase = ClickLetter(2), !.typed = <<>>, !.idx = 0,
                                    !.show = FALSE, !.phaseSet = TRUE],
                         TimerEvent, inOrder)
             ELSE Commit(resetForNext_delayed([s2 EXCEPT !.show = FALSE]), TimerEvent, inOrder)
        ELSE Commit(s1, TimerEvent, inOrder)

InitDA ==
  /\ variant = "delayed"
  /\ timers = <<>>
  /\ audio = "off"
  /\ Untracked
  /\ InitCommon
  /\ OutsideIdle

----------------------------------------------------------------------------
\* Immediate variant (lines 923-1156): no typing index, no illustration;
\* the alphabet grid and the on-screen keyboard call the same handlers.

resetForNext_immediate(s) ==
  [s EXCEPT !.timers = clearBlendTimeouts(@),
            !.word = (@ + 1) % Len(WORDS), !.phase = ClickLetter(0),
            !.typed = <<>>, !.step = 0, !.lastAuto = NoSig,
            !.phaseSet = TRUE, !.reset = TRUE]

handleLetterClick_immediate(s, ch) ==
  IF phase.type # "click_letter" THEN s
  ELSE IF ch # letters(wordIndex)[phase.n + 1] THEN [s EXCEPT !.wrong = @ + 1]
  ELSE [s EXCEPT !.correct = @ + 1,
                 !.phase = IF phase.n = 0 THEN ClickLetter(1)
                           ELSE IF phase.n = 1 THEN BlendPrefix(2) ELSE BlendPrefix(3),
                 !.typed = <<>>, !.phaseSet = TRUE]

IsPrefixOf(p, t) == Len(p) <= Len(t) /\ SubSeq(t, 1, Len(p)) = p

handleType_immediate(s, ch) ==
  IF phase.type # "type_prefix" THEN s
  ELSE LET target == Prefix(wordIndex, phase.n)
           next == [i \in 1..(Len(typedBuffer) + 1) |->
                      toUpperCase(Append(typedBuffer, ch)[i])]
       IN IF ~IsPrefixOf(next, target) THEN [s EXCEPT !.wrong = @ + 1]
          ELSE IF next # target THEN [s EXCEPT !.typed = next, !.correct = @ + 1]
          ELSE IF phase.n = 2
               THEN [s EXCEPT !.correct = @ + 1, !.complete = 2, !.typedAtK = next,
                              !.phase = ClickLetter(2), !.typed = <<>>, !.phaseSet = TRUE]
               ELSE [s EXCEPT !.correct = @ + 1, !.complete = 3, !.typedAtK = next,
                              !.typed = next,
                              !.timers = Append(@, Timer("reset", ResetDelayMs, 0, phase, FALSE))]

onKey_immediate(raw) ==
  LET ch == toUpperCase(raw)
      e == [kind |-> "key", key |-> ch, tk |-> "", stale |-> FALSE]
  IN /\ variant = "immediate"
     /\ IF ch \notin LETTERS
        THEN Ignored(e)
        ELSE IF phase.type = "click_letter"
             THEN Commit(handleLetterClick_immediate(Cur, ch), e, NextInOrder(ch))
             ELSE IF phase.type = "type_prefix"
                  THEN Commit(handleType_immediate(Cur, ch), e, NextInOrder(ch))
                  ELSE Commit(Cur, e, NextInOrder(ch))

\* a button of the alphabet grid, shown in click_letter
AlphabetGrid(L) ==
  /\ variant = "immediate"
  /\ phase.type = "click_letter"
  /\ Commit(handleLetterClick_immediate(Cur, L),
            [kind |-> "key", key |-> L, tk |-> "", stale |-> FALSE], NextInOrder(L))

\* a button of the on-screen keyboard, shown in type_prefix
OnscreenKeyboard(L) ==
  /\ variant = "immediate"
  /\ phase.type = "type_prefix"
  /\ Commit(handleType_immediate(Cur, L),
            [kind |-> "key", key |-> L, tk |-> "", stale |-> FALSE], NextInOrder(L))

\* setTimeout(() => resetForNext(), 350)
ResetTimer ==
  /\ FireGuard("reset")
  /\ Commit(resetForNext_immediate(Fired), TimerEvent, inOrder)

InitIM ==
  /\ variant = "immediate"
  /\ timers = <<>>
  /\ audio = "off"
  /\ Untracked
  /\ InitCommon
  /\ OutsideIdle

Buttons(wi) == {toUpperCase(raw) : raw \in RawKeys(wi)} \cap LETTERS

----------------------------------------------------------------------------
NextTA ==
  \/ \E raw \in RawKeys(wordIndex) : onKey(raw)
  \/ BlendStepTimer
  \/ RedTimer
  \/ TransitionTimer
  \/ DrainTimer
  \/ Tick

NextDA ==
  \/ \E raw \in RawKeys(wordIndex) : onKey_delayed(raw)
  \/ ClickAdvanceTimer
  \/ TypeAdvanceTimer
  \/ BlendStepTimer
  \/ RedTimer
  \/ TransitionTimer
  \/ Tick

NextIM ==
  \/ \E raw \in RawKeys(wordIndex) : onKey_immediate(raw)
  \/ \E L \in Buttons(wordIndex) : AlphabetGrid(L)
  \/ \E L \in Buttons(wordIndex) : OnscreenKeyboard(L)
  \/ ResetTimer
  \/ BlendStepTimer
  \/ RedTimer
  \/ TransitionTimer
  \/ Tick

Init == InitTA \/ InitDA \/ InitIM

Next ==
  \/ \E raw \in RawKeys(wordIndex) : onKey(raw)
  \/ DrainTimer
  \/ \E raw \in RawKeys(wordIndex) : onKey_delayed(raw)
  \/ ClickAdvanceTimer
  \/ TypeAdvanceTimer
  \/ \E raw \in RawKeys(wordIndex) : onKey_immediate(raw)
  \/ \E L \in Buttons(wordIndex) : AlphabetGrid(L)
  \/ \E L \in Buttons(wordIndex) : OnscreenKeyboard(L)
  \/ ResetTimer
  \/ BlendStepTimer
  \/ RedTimer
  \/ TransitionTimer
  \/ Tick

Spec == Init /\ [][Next]_vars

\* The three variants with the accepted keys of each phase counted
InitAccept ==
  /\ variant \in {"typeahead", "delayed", "immediate"}
  /\ timers = IF variant = "typeahead"
              THEN << Timer("drain", 0, 0, ClickLetter(0), FALSE) >> ELSE <<>>
  /\ audio = "off"
  /\ accepted = 0
  /\ announcement = [text |-> "off", shown |-> 0]
  /\ InitCommon
  /\ OutsideIdle

SpecAccept == InitAccept /\ [][Next]_vars

\* the timer of an announcement: setAnnouncement("")
ClearTimer ==
  /\ FireGuard("clear")
  /\ Commit(Fired, TimerEvent, inOrder)

\* The type-ahead and the delayed-advance variant with their announcements
InitAnnounce ==
  /\ variant \in {"typeahead", "delayed"}
  /\ timers = IF variant = "typeahead"
              THEN << Timer("drain", 0, 0, ClickLetter(0), FALSE) >> ELSE <<>>
  /\ audio = "off"
  /\ accepted = -1
  /\ announcement = NoAnnouncement
  /\ InitCommon
  /\ OutsideIdle

\* the clear timers pending are fewer than MaxClears
ClearBudget == Len(SelectSeq(timers, LAMBDA t : t.kind = "clear")) < MaxClears

NextAnnounce ==
  \/ \E raw \in RawKeys(wordIndex) : ClearBudget /\ onKey(raw)
  \/ DrainTimer
  \/ \E raw \in RawKeys(wordIndex) : ClearBudget /\ onKey_delayed(raw)
  \/ ClickAdvanceTimer
  \/ TypeAdvanceTimer
  \/ BlendStepTimer
  \/ RedTimer
  \/ TransitionTimer
  \/ ClearTimer
  \/ Tick

SpecAnnounce == InitAnnounce /\ [][NextAnnounce]_vars
SpecTA == InitTA /\ [][NextTA]_vars
SpecDA == InitDA /\ [][NextDA]_vars
SpecIM == InitIM /\ [][NextIM]_vars

\* The type-ahead variant with the key buffer one entry below its capacity:
\* at ClickLetter(0) of the first word, BUFFER_MAX - 1 wrong keys, a and b in
\* turn, were pressed in two bursts two seconds and one second ago.
BurstBuffer(a, b) ==
  [i \in 1..(BUFFER_MAX - 1) |->
     [key |-> IF i % 2 = 1 THEN a ELSE b,
      age |-> IF 2 * i <= BUFFER_MAX THEN 2 * StepMs ELSE StepMs]]

InitFull ==
  /\ variant = "typeahead"
  /\ wordIndex = 0
  /\ phase = ClickLetter(0)
  /\ typedBuffer = <<>>
  /\ blendHighlightStep = 0
  /\ typingCurrentIndex = 0
  /\ showImage = FALSE
  /\ \E a, b \in {"O", "G", "X"} :
        /\ a # b
        /\ keyBuffer = BurstBuffer(a, b)
        /\ lastKey = [key |-> a, age |-> KEY_REPEAT_GUARD_MS]
  /\ lastAuto = AutoKey(0, ClickLetter(0))
  /\ autoCleanup = TRUE
  /\ timers = <<>>
  /\ inOrder = 0
  /\ arrivals = {}
  /\ audio = "off"
  /\ Untracked
  /\ OutsideIdle
  /\ blendClock = 0
  /\ ev = [kind |-> "init", key |-> "", tk |-> "", stale |-> FALSE] @@ NoTask

SpecFull == InitFull /\ [][NextTA]_vars

\* The type-ahead variant with the outcomes of its audio calls: every call
\* (the letter sound of the mount included) ends in one of AudioOutcomes,
\* and a clip that plays ends or fails later, at any time, or never.
InitAudio ==
  /\ variant = "typeahead"
  /\ timers = << Timer("drain", 0, 0, ClickLetter(0), FALSE) >>
  /\ audio \in AudioOutcomes
  /\ Untracked
  /\ InitCommon
  /\ OutsideIdle

\* the ended event or the error event of the clip that is playing
AudioEvent ==
  /\ audio = "playing"
  /\ audio' \in {"ended", "failed"}
  /\ ev' = [kind |-> "audio", key |-> "", tk |-> "", stale |-> FALSE] @@ NoTask
  /\ UNCHANGED <<variant, wordIndex, phase, typedBuffer, blendHighlightStep,
                 typingCurrentIndex, showImage, keyBuffer, lastKey, lastAuto,
                 autoCleanup, timers, blendClock, inOrder, arrivals, outside, tracked>>

NextAudio ==
  \/ \E raw \in RawKeys(wordIndex) : onKey(raw)
  \/ BlendStepTimer
  \/ RedTimer
  \/ TransitionTimer
  \/ DrainTimer
  \/ Tick
  \/ AudioEvent

SpecAudio == InitAudio /\ [][NextAudio]_vars

\* The type-ahead variant with waits shorter than the repeat guard
NextGuard ==
  \/ \E raw \in RawKeys(wordIndex) : onKey(raw)
  \/ BlendStepTimer
  \/ RedTimer
  \/ TransitionTimer
  \/ DrainTimer
  \/ Tick
  \/ FineTick

SpecGuard == InitTA /\ [][NextGuard]_vars

----------------------------------------------------------------------------
\* The exhaustive deck (src/src/engine/shuffle.ts).  JavaScript indexes from
\* 0, so deck[i] there is deck[i + 1] here; pop() takes the last element.

DeckLetters == <<"D", "O", "G", "C", "A">>
ItemLists == {SubSeq(DeckLetters, 1, n) : n \in 1..MaxItems}

Swap(d, i, j) == [d EXCEPT ![i + 1] = d[j + 1], ![j + 1] = d[i + 1]]

\* Mutant of shuffleFrom: deck[i] = deck[j] without the exchange
RECURSIVE shuffleFrom_overwrite(_, _)
shuffleFrom_overwrite(d, i) ==
  IF i <= 0 THEN {d}
  ELSE UNION {shuffleFrom_overwrite([d EXCEPT ![i + 1] = d[j + 1]], i - 1) : j \in 0..i}

\* the loop of shuffle() from index i down: every result it can leave, over
\* the values j = Math.floor(Math.random() * (i + 1)) in 0..i
RECURSIVE shuffleFrom(_, _)
shuffleFrom(d, i) ==
  IF i <= 0 THEN {d}
  ELSE UNION {shuffleFrom(Swap(d, i, j), i - 1) : j \in 0..i}

shuffle(d) == shuffleFrom(d, Len(d) - 1)

\* next(): the item returned and the deck left, for every shuffle
next ==
  {[item |-> d[Len(d)], deck |-> SubSeq(d, 1, Len(d) - 1)] :
     d \in IF Len(deck) = 0 THEN shuffle(items) ELSE {deck}}

letterGame == <<lgTarget, lgFlash, items, deck, dealt>>

\* history: the items returned by the calls of the current run of n calls
Dealt(item) == IF Len(dealt) = Len(items) THEN << item >> ELSE Append(dealt, item)

wordsGame == <<variant, wordIndex, phase, typedBuffer, blendHighlightStep,
               typingCurrentIndex, showImage, keyBuffer, lastKey, lastAuto,
               autoCleanup, blendClock, inOrder, arrivals, audio, tracked>>

\* A deck on its own: made of a list of 1..MaxItems distinct items
InitDeck ==
  /\ variant = "deck"
  /\ timers = <<>>
  /\ audio = "off"
  /\ Untracked
  /\ InitCommon
  /\ lgTarget = NoLetter
  /\ lgFlash = "none"
  /\ items \in ItemLists
  /\ deck \in shuffle(items)
  /\ dealt = <<>>
  /\ MediaIdle
  /\ norm = NoRun

NextCall ==
  /\ variant = "deck"
  /\ \E r \in next :
        /\ deck' = r.deck
        /\ dealt' = Dealt(r.item)
        /\ ev' = [kind |-> "next", key |-> r.item,
                  tk |-> IF Len(deck) = 0 THEN "refill" ELSE "pop",
                  stale |-> FALSE] @@ NoTask
  /\ UNCHANGED <<wordsGame, timers, lgTarget, lgFlash, items, media, norm>>

SpecDeck == InitDeck /\ [][NextCall]_vars

----------------------------------------------------------------------------
\* LetterGame (src/src/components/LetterGame.tsx).  Its deck is made of the
\* 26 letters; here of the first MaxItems letters of DeckLetters.

RawKeysLG == {"d", "o", "D", "x", "1"}

PendingFlash == Len(SelectSeq(timers, LAMBDA t : t.kind \in {"lgNext", "lgReplay"}))

\* the module's deck is made, the component is mounted with
\* useState(deck.next()), and the effects of the first render have run
InitLG ==
  /\ variant = "letters"
  /\ timers = <<>>
  /\ audio = "off"
  /\ Untracked
  /\ InitCommon
  /\ lgFlash = "none"
  /\ MediaIdle
  /\ norm = NoRun
  /\ items = SubSeq(DeckLetters, 1, MaxItems)
  /\ \E d \in shuffle(items) :
        /\ lgTarget = d[Len(d)]
        /\ deck = SubSeq(d, 1, Len(d) - 1)
        /\ dealt = << d[Len(d)] >>

\* handleKey; its effect depends on target, so it reads the committed target
handleKey(raw) ==
  LET key == toUpperCase(raw)
      e == [kind |-> "key", key |-> key, tk |-> "", stale |-> FALSE]
  IN /\ variant = "letters"
     /\ PendingFlash < MaxPending
     /\ IF key \notin LETTERS
        THEN Ignored(e)
        ELSE /\ lgFlash' = IF key = lgTarget THEN "green" ELSE "red"
             /\ timers' = Append(timers, Timer(IF key = lgTarget THEN "lgNext" ELSE "lgReplay",
                                               FlashMs, 0, phase, FALSE))
             /\ ev' = e @@ [NoTask EXCEPT !.correct = IF key = lgTarget THEN 1 ELSE 0,
                                          !.wrong = IF key = lgTarget THEN 0 ELSE 1]
             /\ UNCHANGED <<wordsGame, lgTarget, items, deck, dealt, media, norm>>

\* setFlash("none"); setTarget(deck.next()); the effect of the render plays
\* the letter sound if the target changed
NextTargetTimer ==
  /\ variant = "letters"
  /\ FireGuard("lgNext")
  /\ \E r \in next :
        /\ lgTarget' = r.item
        /\ deck' = r.deck
        /\ dealt' = Dealt(r.item)
        /\ ev' = TimerEvent @@ [NoTask EXCEPT !.entryAudio = IF r.item # lgTarget THEN 1 ELSE 0]
  /\ lgFlash' = "none"
  /\ timers' = RemoveAt(timers, FirstDue)
  /\ UNCHANGED <<wordsGame, items, media, norm>>

\* setFlash("none"); void playLetterSound(target)
ReplayTimer ==
  /\ variant = "letters"
  /\ FireGuard("lgReplay")
  /\ lgFlash' = "none"
  /\ timers' = RemoveAt(timers, FirstDue)
  /\ ev' = TimerEvent @@ [NoTask EXCEPT !.entryAudio = 1]
  /\ UNCHANGED <<wordsGame, lgTarget, items, deck, dealt, media, norm>>

NextLG ==
  \/ \E raw \in RawKeysLG : handleKey(raw)
  \/ NextTargetTimer
  \/ ReplayTimer
  \/ Tick

SpecLG == InitLG /\ [][NextLG]_vars

\* Either game is mounted: the three versions of WordsGame or LetterGame
InitKeys == Init \/ InitLG

NextKeys == Next \/ NextLG

SpecKeys == InitKeys /\ [][NextKeys]_vars

----------------------------------------------------------------------------
\* playClip (WordsGame.tsx lines 5-17): one call.  An Audio element is
\* [ext, rest, play, error, ended]: rest is what tryExt is called with when
\* the element fails; play is the promise of el.play(); error and ended say
\* whether the event has fired.

NewAudio(ext, rest) ==
  [ext |-> ext, rest |-> rest, play |-> "pending", error |-> FALSE, ended |-> FALSE]

\* tryExt(exts): resolve() if no format is left, else a new element that is
\* asked to play
tryExt(c, exts) ==
  IF exts = <<>> THEN [c EXCEPT !.resolves = @ + 1]
  ELSE [c EXCEPT !.els = Append(@, NewAudio(Head(exts), Tail(exts)))]

MediaEvent(name, ext) == [kind |-> "media", key |-> ext, tk |-> name, stale |-> FALSE] @@ NoTask

InitClip ==
  /\ WordsGameIdle("clip")
  /\ LetterGameIdle
  /\ norm = NoRun
  /\ letterSound = NoLetterSound
  /\ sfx = NoSfx
  /\ clip = tryExt(NoClip, <<"m4a", "mp3">>)

\* what an event of the playClip call leaves alone
ClipFrame ==
  /\ variant = "clip"
  /\ UNCHANGED <<wordsGame, timers, letterGame, letterSound, sfx, norm>>

\* the promise of el.play() is fulfilled: playback has started
ClipPlayStarts ==
  /\ ClipFrame
  /\ \E i \in 1..Len(clip.els) :
       /\ clip.els[i].play = "pending" /\ ~clip.els[i].error
       /\ clip' = [clip EXCEPT !.els[i].play = "resolved"]
       /\ ev' = MediaEvent("playing", clip.els[i].ext)

\* the promise of el.play() is rejected: .catch(() => tryExt(rest))
ClipPlayRejected ==
  /\ ClipFrame
  /\ \E i \in 1..Len(clip.els) :
       /\ clip.els[i].play = "pending"
       /\ clip' = tryExt([clip EXCEPT !.els[i].play = "rejected"], clip.els[i].rest)
       /\ ev' = MediaEvent("rejected", clip.els[i].ext)

\* the error event of the element: el.onerror = () => tryExt(rest).  A load
\* failure fires it and also rejects the pending promise of play().
ClipError ==
  /\ ClipFrame
  /\ \E i \in 1..Len(clip.els) :
       /\ ~clip.els[i].error /\ ~clip.els[i].ended
       /\ clip' = tryExt([clip EXCEPT !.els[i].error = TRUE], clip.els[i].rest)
       /\ ev' = MediaEvent("error", clip.els[i].ext)

\* the ended event: el.onended = () => resolve()
ClipEnded ==
  /\ ClipFrame
  /\ \E i \in 1..Len(clip.els) :
       /\ clip.els[i].play = "resolved" /\ ~clip.els[i].error /\ ~clip.els[i].ended
       /\ clip' = [clip EXCEPT !.els[i].ended = TRUE, !.resolves = @ + 1]
       /\ ev' = MediaEvent("ended", clip.els[i].ext)

NextClip ==
  \/ ClipPlayStarts
  \/ ClipPlayRejected
  \/ ClipError
  \/ ClipEnded

SpecClip == InitClip /\ [][NextClip]_vars

----------------------------------------------------------------------------
\* playSoundEffect (WordsGame.tsx lines 23-58).  current[kind] is the index
\* in els of currentCorrectAudio / currentWrongAudio, 0 for null.  An element
\* is [kind, ext, rest, first, error, ended, sound]: first is the promise of
\* the play() call of tryExt (the one whose catch calls tryExt(rest)); sound
\* is "starting" while a play() is pending, "playing" while the clip is
\* heard, else "silent".

SfxKinds == {"correct", "wrong"}

NewSfx(kind, ext, rest) ==
  [kind |-> kind, ext |-> ext, rest |-> rest, first |-> "pending",
   error |-> FALSE, ended |-> FALSE, sound |-> "starting"]

\* tryExt(exts) of playSoundEffect: nothing if no format is left, else a new
\* element that is asked to play and becomes the tracked one
sfxTryExt(x, kind, exts) ==
  IF exts = <<>> THEN x
  ELSE [x EXCEPT !.els = Append(@, NewSfx(kind, Head(exts), Tail(exts))),
                 !.current[kind] = Len(x.els) + 1]

FirstFormatMade == Cardinality({i \in 1..Len(sfx.els) : sfx.els[i].ext = "m4a"})

InitSfx ==
  /\ WordsGameIdle("sfx")
  /\ LetterGameIdle
  /\ norm = NoRun
  /\ clip = NoClip
  /\ letterSound = NoLetterSound
  /\ sfx = NoSfx

SfxFrame ==
  /\ variant = "sfx"
  /\ UNCHANGED <<wordsGame, timers, letterGame, clip, letterSound, norm>>

\* playSoundEffect(kind): restart the tracked element, or try the formats
playSoundEffect(kind) ==
  /\ SfxFrame
  /\ LET c == sfx.current[kind] IN
     IF c # 0
     THEN sfx' = [sfx EXCEPT !.els[c].sound =
                               IF sfx.els[c].error THEN "silent"
                               ELSE IF @ = "playing" THEN "playing" ELSE "starting"]
     ELSE /\ FirstFormatMade < MaxSfx
          /\ sfx' = sfxTryExt(sfx, kind, <<"m4a", "mp3">>)
  /\ ev' = [kind |-> "trigger", key |-> kind, tk |-> "", stale |-> FALSE] @@ NoTask

\* the pending play() promises of an element are fulfilled
SfxPlayStarts ==
  /\ SfxFrame
  /\ \E i \in 1..Len(sfx.els) :
       /\ sfx.els[i].sound = "starting" /\ ~sfx.els[i].error
       /\ sfx' = [sfx EXCEPT !.els[i].sound = "playing",
                             !.els[i].first = IF @ = "pending" THEN "resolved" ELSE @]
       /\ ev' = MediaEvent("playing", sfx.els[i].ext)

\* the pending play() promises of an element are rejected: the first one
\* calls tryExt(rest), those of restarts are swallowed
SfxPlayRejected ==
  /\ SfxFrame
  /\ \E i \in 1..Len(sfx.els) :
       /\ sfx.els[i].first = "pending" \/ sfx.els[i].sound = "starting"
       /\ LET x == [sfx EXCEPT !.els[i].sound = "silent",
                               !.els[i].first = IF @ = "pending" THEN "rejected" ELSE @]
          IN sfx' = IF sfx.els[i].first = "pending"
                    THEN sfxTryExt(x, sfx.els[i].kind, sfx.els[i].rest) ELSE x
       /\ ev' = MediaEvent("rejected", sfx.els[i].ext)

\* the error event: el.onerror = () => tryExt(rest)
SfxError ==
  /\ SfxFrame
  /\ \E i \in 1..Len(sfx.els) :
       /\ ~sfx.els[i].error /\ ~sfx.els[i].ended
       /\ sfx' = sfxTryExt([sfx EXCEPT !.els[i].error = TRUE, !.els[i].sound = "silent"],
                           sfx.els[i].kind, sfx.els[i].rest)
       /\ ev' = MediaEvent("error", sfx.els[i].ext)

\* the ended event: el.onended sets the tracked element of the kind to null
SfxEnded ==
  /\ SfxFrame
  /\ \E i \in 1..Len(sfx.els) :
       /\ sfx.els[i].sound = "playing"
       /\ sfx' = [sfx EXCEPT !.els[i].sound = "silent", !.els[i].ended = TRUE,
                             !.current[sfx.els[i].kind] = 0]
       /\ ev' = MediaEvent("ended", sfx.els[i].ext)

NextSfx ==
  \/ \E kind \in SfxKinds : playSoundEffect(kind)
  \/ SfxPlayStarts
  \/ SfxPlayRejected
  \/ SfxError
  \/ SfxEnded

SpecSfx == InitSfx /\ [][NextSfx]_vars

----------------------------------------------------------------------------
\* playLetterSound (src/src/engine/speech.ts): the calls for one letter.
\* version: "html" is lines 69-85, "webaudio" is lines 230-272 on its Web
\* Audio path.  el is the cached element of the letter: "absent" (cache[L]
\* is null), "idle", "playing", "ended" or "failed"; error says its error
\* event has fired.  A call is [promise, play, retry]: the promise returned,
\* the promise of its el.play(), and the promise of the second el.play() of
\* the Web Audio path.  onended is the call whose resolve is in el.onended.

NewCall(promise, play) == [promise |-> promise, play |-> play, retry |-> "none"]

PlayPending(c) == c.play = "pending" \/ c.retry = "pending"

SomePlayPending == \E i \in 1..Len(letterSound.calls) : PlayPending(letterSound.calls[i])

InitLetterSound ==
  /\ WordsGameIdle("letterSound")
  /\ LetterGameIdle
  /\ norm = NoRun
  /\ clip = NoClip
  /\ sfx = NoSfx
  /\ \E v \in {"html", "webaudio"}, e \in {"absent", "idle"} :
        letterSound = [NoLetterSound EXCEPT !.version = v, !.el = e]

LetterSoundFrame ==
  /\ variant = "letterSound"
  /\ UNCHANGED <<wordsGame, timers, letterGame, clip, sfx, norm>>

\* playLetterSound(letter): without a cached element, speech and resolve();
\* else el.currentTime = 0, el.onended = () => resolve(), el.play()
playLetterSound ==
  /\ LetterSoundFrame
  /\ Len(letterSound.calls) < MaxCalls
  /\ letterSound' =
       IF letterSound.el = "absent"
       THEN [letterSound EXCEPT !.calls = Append(@, NewCall("resolved", "none"))]
       ELSE [letterSound EXCEPT !.calls = Append(@, NewCall("pending", "pending")),
                                !.onended = Len(letterSound.calls) + 1]
  /\ ev' = [kind |-> "call", key |-> "", tk |-> "", stale |-> FALSE] @@ NoTask

\* the pending promises of el.play() are fulfilled: the clip plays from 0
LetterPlayStarts ==
  /\ LetterSoundFrame
  /\ SomePlayPending /\ ~letterSound.error
  /\ letterSound' =
       [letterSound EXCEPT
          !.el = "playing",
          !.calls = [i \in 1..Len(@) |->
                       [@[i] EXCEPT !.play = IF @ = "pending" THEN "fulfilled" ELSE @,
                                    !.retry = IF @ = "pending" THEN "fulfilled" ELSE @]]]
  /\ ev' = MediaEvent("playing", "")

\* the pending promises of el.play() are rejected.  "html": speech and
\* resolve().  "webaudio": the first rejection calls el.play() again, the
\* rejection of that one gives speech and resolve().
LetterPlayRejected ==
  /\ LetterSoundFrame
  /\ SomePlayPending
  /\ letterSound' =
       [letterSound EXCEPT
          !.el = IF @ = "playing" THEN "idle" ELSE @,
          !.calls = [i \in 1..Len(@) |->
                       IF @[i].retry = "pending"
                       THEN [@[i] EXCEPT !.retry = "rejected", !.promise = "resolved"]
                       ELSE IF @[i].play = "pending"
                       THEN IF letterSound.version = "webaudio"
                            THEN [@[i] EXCEPT !.play = "rejected", !.retry = "pending"]
                            ELSE [@[i] EXCEPT !.play = "rejected", !.promise = "resolved"]
                       ELSE @[i]]]
  /\ ev' = MediaEvent("rejected", "")

\* the ended event: el.onended, the resolve of the last call
LetterEnded ==
  /\ LetterSoundFrame
  /\ letterSound.el = "playing" /\ ~SomePlayPending
  /\ letterSound' = [letterSound EXCEPT !.el = "ended",
                                        !.calls[letterSound.onended].promise = "resolved"]
  /\ ev' = MediaEvent("ended", "")

\* the error event while the clip plays: no handler is set for it
LetterError ==
  /\ LetterSoundFrame
  /\ letterSound.el = "playing" /\ ~SomePlayPending
  /\ letterSound' = [letterSound EXCEPT !.el = "failed", !.error = TRUE]
  /\ ev' = MediaEvent("error", "")

NextLetterSound ==
  \/ playLetterSound
  \/ LetterPlayStarts
  \/ LetterPlayRejected
  \/ LetterEnded
  \/ LetterError

SpecLetterSound == InitLetterSound /\ [][NextLetterSound]_vars

----------------------------------------------------------------------------
\* The audio normalizer (src/scripts/normalize-audio.mjs): one run of main
\* past findAudioFiles.  The content of a file is a token: "loud" (outside
\* the tolerance), "ok" (within it), "normalized" and "off" (written by
\* ffmpeg, measured within / outside the tolerance), "damaged" (a copy that
\* failed half way).  A file on disk is [data, ver]; ver counts its writes
\* and stands for the size-mtime hash of getFileHash.
\*   norm.pc        where processFiles is: "start", "mkdir", "backup", "batch" (between
\*                  batches), "running" (a batch in progress), "done", "fatal"
\*   norm.dry       the dryRun argument
\*   norm.files     what findAudioFiles returned, in its order
\*   norm.disk      the audio files;            norm.orig   their data at the start
\*   norm.tmp       the files whose <file>.tmp exists
\*   norm.manifest  the manifest object;        norm.saved  the manifest file
\*   norm.backupDir the _backup_<timestamp> directory exists
\*   norm.backup    its copy of each file ("none" without one); norm.copied counts createBackup's loop
\*   norm.i         the batch loop's index (from 0)
\*   norm.job       where normalizeFile is for each file of the batch
\*   norm.out       the loudness measured on <file>.tmp
\*   norm.results   the results pushed so far
\*   norm.written   history: the audio files written by this run
\*   norm.run       1 for a first run, 2 for a run that follows it
\*   norm.batches   history: the batches started;  norm.saves  history: the calls of saveManifest

MAX_CONCURRENT == 4

FileNames == <<"a.m4a", "b.mp3", "c.mp3", "d.m4a", "e.mp3", "f.m4a">>

FileLists == {SubSeq(FileNames, 1, n) : n \in 1..MaxFiles}

AllFiles == {FileNames[n] : n \in 1..Len(FileNames)}

NoEntry == [hash |-> -1, lufs |-> "none"]

\* Math.abs(inputIL - TARGET_IL) <= TOLERANCE_LU, as measureLoudness sees the data
WithinTolerance(data) == data \in {"ok", "normalized"}

\* the manifest filter of processFiles: the files that are not skipped
RECURSIVE toProcess(_, _, _)
toProcess(files, manifest, disk) ==
  IF files = <<>> THEN <<>>
  ELSE LET file == Head(files)
           entry == manifest[file]
           rest == toProcess(Tail(files), manifest, disk)
       IN IF entry # NoEntry /\ entry.hash = disk[file].ver /\ entry.lufs = "target"
          THEN rest
          ELSE <<file>> \o rest

\* toProcess.slice(i, i + MAX_CONCURRENT), as a set
Batch_unbounded(n) ==
  {n.todo[k] : k \in {k \in 1..Len(n.todo) : n.i < k}}

Batch(n) ==
  {n.todo[k] : k \in {k \in 1..Len(n.todo) : n.i < k /\ k <= n.i + MAX_CONCURRENT}}

Returned == {"ok", "skipped", "would", "error"}

InitNormalize ==
  /\ WordsGameIdle("normalize")
  /\ LetterGameIdle
  /\ MediaIdle
  /\ \E files \in FileLists, dry \in BOOLEAN :
     \E data \in [AllFiles -> {"loud", "ok"}],
        known \in SUBSET {files[k] : k \in 1..Len(files)},
        stale \in SUBSET {files[k] : k \in 1..Len(files)} :
       /\ \A f \in known : data[f] = "ok"
       /\ norm = [pc |-> "start", dry |-> dry, files |-> files,
                  disk |-> [f \in AllFiles |-> [data |-> data[f], ver |-> 0]],
                  orig |-> data,
                  tmp |-> {},
                  manifest |-> [f \in AllFiles |-> NoEntry],
                  saved |-> [f \in AllFiles |->
                               IF f \in known THEN [hash |-> 0, lufs |-> "target"] ELSE NoEntry],
                  backupDir |-> (stale # {}),
                  backup |-> [f \in AllFiles |-> IF f \in stale THEN "stale" ELSE "none"],
                  copied |-> 0, todo |-> <<>>, i |-> 0,
                  job |-> [f \in AllFiles |-> "none"],
                  out |-> [f \in AllFiles |-> "none"],
                  results |-> <<>>, written |-> {}, run |-> 1,
                  batches |-> 0, saves |-> 0]

\* a run over ManyFiles loud files that are not in the manifest, with a new
\* backup directory
InitBatches ==
  /\ WordsGameIdle("normalize")
  /\ LetterGameIdle
  /\ MediaIdle
  /\ \E dry \in BOOLEAN :
       norm = [pc |-> "start", dry |-> dry, files |-> SubSeq(FileNames, 1, ManyFiles),
               disk |-> [f \in AllFiles |-> [data |-> "loud", ver |-> 0]],
               orig |-> [f \in AllFiles |-> "loud"],
               tmp |-> {},
               manifest |-> [f \in AllFiles |-> NoEntry],
               saved |-> [f \in AllFiles |-> NoEntry],
               backupDir |-> FALSE,
               backup |-> [f \in AllFiles |-> "none"],
               copied |-> 0, todo |-> <<>>, i |-> 0,
               job |-> [f \in AllFiles |-> "none"],
               out |-> [f \in AllFiles |-> "none"],
               results |-> <<>>, written |-> {}, run |-> 1,
               batches |-> 0, saves |-> 0]

NormalizeFrame ==
  /\ variant = "normalize"
  /\ UNCHANGED <<wordsGame, timers, letterGame, media>>

ToolEvent(name, file) == [kind |-> "tool", key |-> file, tk |-> name, stale |-> FALSE] @@ NoTask

\* processFiles up to its first step on the disk: load the manifest, filter
processFiles_noBackup ==
  /\ NormalizeFrame
  /\ norm.pc = "start"
  /\ LET todo == toProcess(norm.files, norm.saved, norm.disk)
     IN norm' = [norm EXCEPT !.manifest = norm.saved,
                             !.todo = todo,
                             !.pc = IF todo = <<>> THEN "done" ELSE "batch"]
  /\ ev' = ToolEvent("processFiles", "")

processFiles ==
  /\ NormalizeFrame
  /\ norm.pc = "start"
  /\ LET todo == toProcess(norm.files, norm.saved, norm.disk)
     IN norm' = [norm EXCEPT !.manifest = norm.saved,
                             !.todo = todo,
                             !.pc = IF todo = <<>> THEN "done"
                                    ELSE IF norm.dry THEN "batch" ELSE "mkdir"]
  /\ ev' = ToolEvent("processFiles", "")

\* createBackup: mkdir of the backup directory, then one copyFile per file
\* of toProcess; it returns after the last one
createBackup ==
  /\ NormalizeFrame
  /\ norm.pc = "mkdir"
  /\ norm' = [norm EXCEPT !.backupDir = TRUE, !.pc = "backup"]
  /\ ev' = ToolEvent("mkdir", "")

copyToBackup ==
  /\ NormalizeFrame
  /\ norm.pc = "backup"
  /\ LET file == norm.todo[norm.copied + 1]
     IN /\ norm' = [norm EXCEPT !.backup[file] = norm.disk[file].data,
                                !.copied = @ + 1,
                                !.pc = IF norm.copied + 1 = Len(norm.todo) THEN "batch" ELSE @]
        /\ ev' = ToolEvent("backup", file)

\* mkdir or copyFile of createBackup throws: processFiles rejects, main's
\* catch exits
backupFails ==
  /\ NormalizeFrame
  /\ norm.pc \in {"mkdir", "backup"}
  /\ norm' = [norm EXCEPT !.pc = "fatal"]
  /\ ev' = ToolEvent("fatal", "")

\* batch.map(file => normalizeFile(file, dryRun)): every call runs to its
\* first await, the measurement
startBatch ==
  /\ NormalizeFrame
  /\ norm.pc = "batch"
  /\ norm' = [norm EXCEPT !.pc = "running",
                          !.batches = @ + 1,
                          !.job = [f \in AllFiles |-> IF f \in Batch(norm) THEN "measure" ELSE "none"]]
  /\ ev' = ToolEvent("batch", "")

\* normalizeFile's catch: unlink(filePath + '.tmp'), return {file, error}
Caught(n, file) == [n EXCEPT !.tmp = @ \ {file}, !.job[file] = "error"]

\* measureLoudness(filePath) returns: skipped, the dry-run result, or on to
\* the first pass
measured_noDryBranch(file) ==
  /\ NormalizeFrame
  /\ norm.pc = "running" /\ norm.job[file] = "measure"
  /\ norm' = [norm EXCEPT !.job[file] =
                 IF WithinTolerance(norm.disk[file].data) THEN "skipped" ELSE "pass1"]
  /\ ev' = ToolEvent("measured", file)

measured(file) ==
  /\ NormalizeFrame
  /\ norm.pc = "running" /\ norm.job[file] = "measure"
  /\ norm' = [norm EXCEPT !.job[file] =
                 IF WithinTolerance(norm.disk[file].data) THEN "skipped"
                 ELSE IF norm.dry THEN "would"
                 ELSE "pass1"]
  /\ ev' = ToolEvent("measured", file)

\* first pass of ffmpeg returns its measurement
firstPass(file) ==
  /\ NormalizeFrame
  /\ norm.pc = "running" /\ norm.job[file] = "pass1"
  /\ norm' = [norm EXCEPT !.job[file] = "pass2"]
  /\ ev' = ToolEvent("pass1", file)

\* second pass: ffmpeg writes <file>.tmp
secondPass(file) ==
  /\ NormalizeFrame
  /\ norm.pc = "running" /\ norm.job[file] = "pass2"
  /\ norm' = [norm EXCEPT !.job[file] = "verify", !.tmp = @ \cup {file}]
  /\ ev' = ToolEvent("pass2", file)

\* measureLoudness(tempPath) returns the loudness of the output
verified(file) ==
  /\ NormalizeFrame
  /\ norm.pc = "running" /\ norm.job[file] = "verify"
  /\ \E lufs \in {"target", "off"} :
       norm' = [norm EXCEPT !.job[file] = "replace", !.out[file] = lufs]
  /\ ev' = ToolEvent("verified", file)

\* copyFile(tempPath, filePath), unlink(tempPath), return the result
replaced(file) ==
  /\ NormalizeFrame
  /\ norm.pc = "running" /\ norm.job[file] = "replace"
  /\ norm' = [norm EXCEPT !.disk[file] = [data |-> IF norm.out[file] = "target" THEN "normalized" ELSE "off",
                                          ver |-> @.ver + 1],
                          !.tmp = @ \ {file},
                          !.written = @ \cup {file},
                          !.job[file] = "ok"]
  /\ ev' = ToolEvent("replaced", file)

\* a step of normalizeFile throws: a measurement or a pass of ffmpeg fails
\* (the second pass may have left a part of <file>.tmp), or copyFile fails
\* with the file untouched or partly written
failed(file) ==
  /\ NormalizeFrame
  /\ norm.pc = "running" /\ norm.job[file] \in {"measure", "pass1", "pass2", "verify", "replace"}
  /\ \/ norm' = Caught(norm, file)
     \/ /\ norm.job[file] = "replace"
        /\ norm' = Caught([norm EXCEPT !.disk[file] = [data |-> "damaged", ver |-> @.ver + 1],
                                       !.written = @ \cup {file}], file)
  /\ ev' = ToolEvent("failed", file)

\* Promise.all settles: results.push, the manifest entries of the files
\* that were rewritten, saveManifest unless dry, the next batch or the end
\* (a batch with no file rewritten leaves the manifest as it is)
finishBatch ==
  /\ NormalizeFrame
  /\ norm.pc = "running"
  /\ \A f \in Batch(norm) : norm.job[f] \in Returned
  /\ LET manifest == [f \in AllFiles |->
                        IF f \in Batch(norm) /\ norm.job[f] \in {"ok", "would"}
                        THEN [hash |-> norm.disk[f].ver,
                              lufs |-> IF norm.job[f] = "would" THEN "target" ELSE norm.out[f]]
                        ELSE norm.manifest[f]]
         batchResults == [k \in 1..Cardinality(Batch(norm)) |->
                            [file |-> norm.todo[norm.i + k], is |-> norm.job[norm.todo[norm.i + k]]]]
     IN norm' = [norm EXCEPT !.manifest = manifest,
                             !.saved = IF norm.dry THEN @ ELSE manifest,
                             !.saves = IF norm.dry THEN @ ELSE @ + 1,
                             !.results = @ \o batchResults,
                             !.i = @ + MAX_CONCURRENT,
                             !.job = [f \in AllFiles |-> "none"],
                             !.pc = IF norm.i + MAX_CONCURRENT < Len(norm.todo) THEN "batch" ELSE "done"]
  /\ ev' = ToolEvent("saved", "")

NextNormalize ==
  \/ processFiles
  \/ createBackup
  \/ copyToBackup
  \/ backupFails
  \/ startBatch
  \/ \E file \in AllFiles : measured(file)
  \/ \E file \in AllFiles : firstPass(file)
  \/ \E file \in AllFiles : secondPass(file)
  \/ \E file \in AllFiles : verified(file)
  \/ \E file \in AllFiles : replaced(file)
  \/ \E file \in AllFiles : failed(file)
  \/ finishBatch

SpecNormalize == InitNormalize /\ [][NextNormalize]_vars

\* main is run again after a normalizing run that ended with failed = 0,
\* with the files, the manifest file and the stray <file>.tmp as that run
\* left them; its backup directory is a new one, or the same one when the
\* timestamp (cut to the second) is the same
runAgain ==
  /\ NormalizeFrame
  /\ norm.pc = "done" /\ norm.run = 1 /\ ~norm.dry
  /\ \A k \in 1..Len(norm.results) : norm.results[k].is # "error"
  /\ \E sameSecond \in BOOLEAN :
       norm' = [norm EXCEPT !.pc = "start", !.run = 2,
                            !.orig = [f \in AllFiles |-> norm.disk[f].data],
                            !.manifest = [f \in AllFiles |-> NoEntry],
                            !.backupDir = IF sameSecond THEN @ ELSE FALSE,
                            !.backup = IF sameSecond THEN @ ELSE [f \in AllFiles |-> "none"],
                            !.copied = 0, !.todo = <<>>, !.i = 0,
                            !.out = [f \in AllFiles |-> "none"],
                            !.results = <<>>, !.written = {},
                            !.batches = 0, !.saves = 0]
  /\ ev' = ToolEvent("main", "")

SpecBatches == InitBatches /\ [][NextNormalize]_vars

NextRerun ==
  \/ NextNormalize
  \/ runAgain

SpecRerun == InitNormalize /\ [][NextRerun]_vars

----------------------------------------------------------------------------
\* Properties

\* The fixed order of phases within a word, and to the next word
Successor(p) ==
  IF p = ClickLetter(0) THEN ClickLetter(1)
  ELSE IF p = ClickLetter(1) THEN BlendPrefix(2)
  ELSE IF p = BlendPrefix(2) THEN TypePrefix(2)
  ELSE IF p = TypePrefix(2) THEN ClickLetter(2)
  ELSE IF p = ClickLetter(2) THEN BlendPrefix(3)
  ELSE IF p = BlendPrefix(3) THEN TypePrefix(3)
  ELSE ClickLetter(0)

\* the letter the mounted component expects in the committed state
ExpectedNow ==
  IF phase.type = "click_letter" THEN letters(wordIndex)[phase.n + 1]
  ELSE IF phase.type = "type_prefix"
       THEN LET at == IF variant = "immediate" THEN Len(typedBuffer) ELSE typingCurrentIndex
            IN IF at < phase.n THEN letters(wordIndex)[at + 1] ELSE NoLetter
       ELSE NoLetter

\* C1: in the type-ahead variant every change of the phase follows one edge
\* of the fixed order ClickLetter(0) -> ClickLetter(1) -> BlendPrefix(2) ->
\* TypePrefix(2) -> ClickLetter(2) -> BlendPrefix(3) -> TypePrefix(3) ->
\* ClickLetter(0) of the next word.
C1_PhaseOrder ==
  [][phase' # phase => phase' = Successor(phase)]_vars

\* C2: in the type-ahead variant, pressing the expected letter while the
\* phase is ClickLetter(i) moves the phase to the successor of ClickLetter(i).
C2_ExpectedKeyAdvances ==
  [][(ev'.kind = "key" /\ phase.type = "click_letter" /\ ev'.key = ExpectedNow)
       => phase' = Successor(phase)]_vars

\* C3: the word index changes only by completing TypePrefix(3), by exactly
\* one position, restarting at ClickLetter(0); so never twice for one
\* completed word.
C3_WordAdvancesOnce ==
  [][wordIndex' # wordIndex
       => /\ phase = TypePrefix(3)
          /\ phase' = ClickLetter(0)
          /\ wordIndex' = (wordIndex + 1) % Len(WORDS)]_vars

\* C4: the blend phase is never left stuck with its timers cancelled: while
\* the phase is BlendPrefix(k), the red timer or the transition timer that
\* leads to TypePrefix(k) is pending.
C4_BlendNeverStuck ==
  phase.type = "blend_prefix"
    => \E i \in 1..Len(timers) :
         timers[i].kind \in {"red", "transition"} /\ timers[i].a = phase.n

\* C5: a timer callback scheduled under an earlier phase (the phase changed
\* or the word was reset since) changes neither the phase, the typing
\* progress, the animation step, the word index nor the illustration flag.
C5_StaleTimerChangesNothing ==
  [][(ev'.kind = "timer" /\ ev'.stale)
       => UNCHANGED <<phase, typedBuffer, typingCurrentIndex, blendHighlightStep,
                      wordIndex, showImage>>]_vars

\* C10: whenever the phase is TypePrefix(k), the typed buffer is a prefix of
\* the first k letters of the current word.
C10_TypedIsPrefixOfTarget ==
  phase.type = "type_prefix" => IsPrefixOf(typedBuffer, Prefix(wordIndex, phase.n))

\* the animation step that BlendPrefix(k) shows t ms after it was entered
ExpectedStep(k, t) == IF t >= k * StepMs THEN k + 1 ELSE (t \div StepMs) + 1

\* C6: BlendPrefix(k) entered at time t shows step i+1 from t + i seconds
\* (i in 0..k-1), the terminal step k+1 from t + k seconds, and turns into
\* TypePrefix(k) at exactly t + k seconds + 100 ms: it leaves for no other
\* phase, not earlier and not later.
C6_BlendTiming ==
  /\ []((phase.type = "blend_prefix" /\ Due = {})
          => /\ blendHighlightStep = ExpectedStep(phase.n, blendClock)
             /\ blendClock < phase.n * StepMs + TransitionMs)
  /\ [](phase.type = "blend_prefix" => blendClock <= phase.n * StepMs + TransitionMs)
  /\ [][(phase.type = "blend_prefix" /\ phase' # phase)
          => /\ phase' = TypePrefix(phase.n)
             /\ blendClock = phase.n * StepMs + TransitionMs]_vars

C6_Witness ==
  ev.kind = "timer" /\ ev.tk = "transition" /\ phase = TypePrefix(3)

\* C7: a key press that arrives while the phase is BlendPrefix(k) changes
\* nothing: no state, no key buffer entry, no timer, and it plays no cue.
C7_KeyInBlendIgnored ==
  [][(ev'.kind = "key" /\ phase.type = "blend_prefix")
       => /\ UNCHANGED <<wordIndex, phase, typedBuffer, blendHighlightStep,
                         typingCurrentIndex, showImage, keyBuffer, lastKey,
                         lastAuto, autoCleanup, timers>>
          /\ ev'.correct = 0 /\ ev'.wrong = 0]_vars

C7_Witness ==
  ev.kind = "key" /\ ev.key \in LETTERS /\ phase.type = "blend_prefix"
    /\ blendClock >= StepMs

\* C8: pressing a letter that is not the expected one in ClickLetter(i) or
\* TypePrefix(k) leaves phase, typing index and typed buffer unchanged and
\* plays exactly one "wrong" cue and no "correct" cue.
C8_WrongKey ==
  [][(/\ ev'.kind = "key" /\ ev'.key \in LETTERS
      /\ phase.type \in {"click_letter", "type_prefix"}
      /\ ev'.key # ExpectedNow)
       => /\ phase' = phase
          /\ typingCurrentIndex' = typingCurrentIndex
          /\ typedBuffer' = typedBuffer
          /\ ev'.wrong = 1 /\ ev'.correct = 0]_vars

C8_Witness ==
  /\ ev.kind = "key" /\ ev.key \in LETTERS /\ ev.wrong = 1
  /\ phase.type = "type_prefix" /\ typedBuffer # <<>>
  /\ ev.key # ExpectedNow

C11_TypingIndexMatchesTyped ==
  (variant # "immediate" /\ phase.type = "type_prefix")
    => /\ typingCurrentIndex \in 0..phase.n
       /\ typingCurrentIndex = Len(typedBuffer)

\* C12: typing progress is (0, "") when TypePrefix(k) is entered and again
\* when it is left (k = 2 to ClickLetter(2), k = 3 to the next word), and
\* outside TypePrefix no typing index and no typed text is left over.
C12_ProgressResetAtEdges ==
  /\ [][(phase' # phase /\ "type_prefix" \in {phase.type, phase'.type})
          => (typingCurrentIndex' = 0 /\ typedBuffer' = <<>>)]_vars
  /\ [](phase.type # "type_prefix" => (typingCurrentIndex = 0 /\ typedBuffer = <<>>))

C12_Witness ==
  /\ ev.complete = 2 /\ ev.typedAtK = Prefix(wordIndex, 2)
  /\ phase = ClickLetter(2) /\ typingCurrentIndex = 0 /\ typedBuffer = <<>>

\* the letters of the prefix not yet typed are all in the key buffer, unexpired
RestBuffered ==
  \A i \in (typingCurrentIndex + 1)..phase.n :
     \E j \in 1..Len(keyBuffer) :
        /\ keyBuffer[j].key = letters(wordIndex)[i]
        /\ keyBuffer[j].age < BUFFER_ITEM_TTL_MS

AllArrived ==
  /\ variant = "typeahead" /\ phase.type = "type_prefix"
  /\ arrivals = PrefixLetters(wordIndex, phase.n)
  /\ RestBuffered

\* a drain pass is scheduled and due
DrainPending ==
  \E i \in 1..Len(timers) : timers[i].kind = "drain" /\ timers[i].rem = 0

\* C13: type-ahead: once the k letters of TypePrefix(k) have all arrived, in
\* any order, each once and none expired, the drain passes complete the
\* prefix without a further key (a drain pass is due, and each pass run in
\* that situation consumes a key); and a prefix completed from such arrivals
\* was consumed in expected-letter order (the typed text is the prefix) and
\* the phase moves on per the fixed order.
C13_TypeAheadCompletes ==
  /\ [](AllArrived => DrainPending)
  /\ [][(AllArrived /\ ev'.kind = "timer" /\ ev'.tk = "drain")
          => ev'.correct >= 1]_vars
  /\ [][ev'.perm => (/\ ev'.typedAtK = Prefix(wordIndex, phase.n)
                     /\ phase' = Successor(phase))]_vars

\* C14: draining runs to a fixpoint: when no drain pass is pending, the key
\* buffer holds no unexpired key equal to the letter expected in the current
\* phase at the current typing index.
C14_DrainFixpoint ==
  (variant = "typeahead" /\ ~(\E i \in 1..Len(timers) : timers[i].kind = "drain"))
    => (\/ getExpectedLetter = NoLetter
        \/ FirstMatch(pruneBuffer(keyBuffer), getExpectedLetter) = 0)

\* the last drain pass of a chain: it found no match, keys that are not
\* expected are still waiting, and no further pass is pending
C14_Witness ==
  /\ variant = "typeahead" /\ ev.kind = "timer" /\ ev.tk = "drain" /\ ev.correct = 0
  /\ phase.type = "type_prefix" /\ typingCurrentIndex >= 1
  /\ pruneBuffer(keyBuffer) # <<>>
  /\ ~(\E i \in 1..Len(timers) : timers[i].kind = "drain")

\* C15: every change of phase or typing index leaves a drain pass scheduled
\* with delay 0 by the render of the new state, so it runs before any time
\* passes and needs no further key; and a drain pass that finds an unexpired
\* key equal to the expected letter consumes it and moves the state on.
C15_DrainAfterChange ==
  /\ [][(variant = "typeahead"
          /\ (phase' # phase \/ typingCurrentIndex' # typingCurrentIndex))
          => \E i \in 1..Len(timers') :
                /\ timers'[i].kind = "drain" /\ timers'[i].rem = 0
                /\ timers'[i].cp = phase']_vars
  /\ [][(/\ ev'.kind = "timer" /\ ev'.tk = "drain"
          /\ getExpectedLetter # NoLetter
          /\ FirstMatch(pruneBuffer(keyBuffer), getExpectedLetter) # 0)
          => (/\ ev'.correct >= 1
              /\ (phase' # phase \/ typingCurrentIndex' # typingCurrentIndex))]_vars
  /\ [][ev'.kind = "advance" => ~DrainPending]_vars

\* TypePrefix(k) was entered by the transition timer with its first letter
\* already buffered, and the drain pass consumed it with no key pressed
C15_Witness ==
  /\ variant = "typeahead" /\ ev.kind = "timer" /\ ev.tk = "drain" /\ ev.correct = 1
  /\ phase.type = "type_prefix" /\ typingCurrentIndex = 1 /\ arrivals = {}
  /\ typedBuffer = Prefix(wordIndex, 1)

\* C16: no key is consumed as a correct key 3000 ms or more after it was
\* pressed, and every task that scans the key buffer leaves no entry aged
\* 3000 ms or more in it.
C16_NoExpiredKeyConsumed ==
  /\ ev.consumedAge < BUFFER_ITEM_TTL_MS
  /\ (/\ variant = "typeahead"
      /\ \/ (ev.kind = "timer" /\ ev.tk = "drain")
         \/ (ev.kind = "key" /\ ev.correct + ev.wrong >= 1))
       => \A i \in 1..Len(keyBuffer) : keyBuffer[i].age < BUFFER_ITEM_TTL_MS

\* a drain pass removed an expired entry and consumed a younger, aged one
C16_Witness ==
  /\ variant = "typeahead" /\ ev.kind = "timer" /\ ev.tk = "drain"
  /\ ev.purged >= 1 /\ ev.consumedAge >= 2000

\* C17: the key buffer never holds more than 16 entries and its entries are
\* in arrival order (oldest first); a key pushed while 16 unexpired entries
\* are present drops the oldest entry and is stored last.
C17_BufferCapacity ==
  /\ [](Len(keyBuffer) <= BUFFER_MAX)
  /\ [](\A i, j \in 1..Len(keyBuffer) :
          i < j => keyBuffer[i].age >= keyBuffer[j].age)
  /\ [][(/\ ev'.kind = "key" /\ ev'.wrong = 1
          /\ ~(lastKey.key = ev'.key /\ lastKey.age < KEY_REPEAT_GUARD_MS)
          /\ Len(pruneBuffer(keyBuffer)) = BUFFER_MAX)
          => keyBuffer' = Append(Tail(pruneBuffer(keyBuffer)),
                                 [key |-> ev'.key, age |-> 0])]_vars

\* the second key pushed onto BUFFER_MAX - 1 entries: the first filled the
\* buffer, this one dropped the oldest entry
C17_Witness ==
  /\ ev.kind = "key" /\ ev.wrong = 1 /\ Len(keyBuffer) = BUFFER_MAX
  /\ Fresh = 2 /\ keyBuffer[BUFFER_MAX].key = ev.key
  /\ keyBuffer[1].age > keyBuffer[BUFFER_MAX].age

\* the key event ev'.key is one that onKey handles (a letter, outside
\* blend_prefix, with a letter expected)
Handled ==
  /\ variant = "typeahead" /\ ev'.kind = "key" /\ ev'.key \in LETTERS
  /\ phase.type # "blend_prefix" /\ getExpectedLetter # NoLetter

\* it repeats the last recorded key less than 30 ms after it
Repeat ==
  lastKey # NoKey /\ lastKey.key = ev'.key /\ lastKey.age < KEY_REPEAT_GUARD_MS

\* the number of entries the buffer holds after pruning and room-making
KeptLen == IF Len(pruneBuffer(keyBuffer)) >= BUFFER_MAX THEN BUFFER_MAX - 1
           ELSE Len(pruneBuffer(keyBuffer))

\* C18: repeat guard: a handled key that repeats the last recorded key less
\* than 30 ms after it is not recorded and adds no buffer entry, so it is
\* not consumed as a further correct key (every key consumed in its task was
\* in the buffer before); any other handled key (a different letter, or the
\* same letter 30 ms or more after the recorded one) is recorded and adds
\* one entry, stored last unless it is consumed at once.
C18_RepeatGuard ==
  /\ [][(Handled /\ Repeat)
          => (/\ lastKey' = IF ev'.reset THEN NoKey ELSE lastKey
              /\ \/ ev'.reset
                 \/ Len(keyBuffer') = Len(pruneBuffer(keyBuffer)) - ev'.correct)]_vars
  /\ [][(Handled /\ ~Repeat)
          => (/\ lastKey' = IF ev'.reset THEN NoKey ELSE [key |-> ev'.key, age |-> 0]
              /\ \/ ev'.reset
                 \/ Len(keyBuffer') = KeptLen + 1 - ev'.correct
              /\ ev'.correct = 0
                   => (/\ Len(keyBuffer') >= 1
                       /\ keyBuffer'[Len(keyBuffer')] = [key |-> ev'.key, age |-> 0]))]_vars

\* a wrong key repeated 29 ms after it was recorded: dropped, the buffer
\* still holds the one entry
C18_Witness ==
  /\ variant = "typeahead" /\ ev.kind = "key" /\ ev.wrong = 1
  /\ lastKey = [key |-> ev.key, age |-> KEY_REPEAT_GUARD_MS - 1]
  /\ keyBuffer = << lastKey >>

IsPrefix(a, b) == Len(a) <= Len(b) /\ SubSeq(b, 1, Len(a)) = a

\* the unexpired entries of buf whose key is not the expected letter
WrongKept(buf) ==
  SelectSeq(buf, LAMBDA e : e.key # getExpectedLetter /\ e.age < BUFFER_ITEM_TTL_MS)

\* the step is a task (a key event or a timer callback), not a wait
TaskStep == ev'.kind \in {"key", "timer"}

\* the key event pushes onto a full buffer: the oldest entry is shifted out
Evicts == Handled /\ ~Repeat /\ Len(pruneBuffer(keyBuffer)) >= BUFFER_MAX

\* a handled key that is not the expected letter
WrongKey == Handled /\ ev'.key # getExpectedLetter

StoredLast ==
  /\ Len(keyBuffer') >= 1
  /\ keyBuffer'[Len(keyBuffer')] = [key |-> ev'.key, age |-> 0]

\* C19 as stated: a key that is not the expected letter when pressed is
\* stored in the buffer, and an unexpired entry whose key is not the
\* expected letter is removed by no task and no wait: it leaves the buffer
\* only when it is consumed as a correct key or has reached the age of
\* 3000 ms.
C19_WrongKeyStaysUntilExpiry ==
  /\ [][WrongKey => StoredLast]_vars
  /\ [][TaskStep => IsPrefix(WrongKept(keyBuffer), WrongKept(keyBuffer'))]_vars
  /\ [][ev'.kind = "advance"
          => (/\ Len(keyBuffer') = Len(keyBuffer)
              /\ \A i \in 1..Len(keyBuffer) : keyBuffer'[i].key = keyBuffer[i].key)]_vars

\* C19 amended: a key that is not the expected letter when pressed is
\* stored in the buffer unless the repeat guard drops it, and an unexpired
\* entry whose key is not the expected letter stays in the buffer, in
\* arrival order, through every task and every wait, except that the oldest
\* entry is shifted out when a key is pushed onto a full buffer and that
\* resetForNext empties the buffer.
C19_WrongKeyStays ==
  /\ [][(WrongKey /\ ~Repeat) => StoredLast]_vars
  /\ [][(WrongKey /\ Repeat) => keyBuffer' = pruneBuffer(keyBuffer)]_vars
  /\ [][(TaskStep /\ ~ev'.reset /\ ~Evicts)
          => IsPrefix(WrongKept(keyBuffer), WrongKept(keyBuffer'))]_vars
  /\ [][(TaskStep /\ ~ev'.reset /\ Evicts)
          => IsPrefix(WrongKept(Tail(pruneBuffer(keyBuffer))), WrongKept(keyBuffer'))]_vars
  /\ [][(TaskStep /\ ev'.reset) => keyBuffer' = <<>>]_vars
  /\ [][ev'.kind = "advance"
          => (/\ Len(keyBuffer') = Len(keyBuffer)
              /\ \A i \in 1..Len(keyBuffer) : keyBuffer'[i].key = keyBuffer[i].key)]_vars

\* a drain pass consumed a buffered key and left an older entry, a key that
\* was wrong when pressed a second or more ago, in the buffer
C19_Witness ==
  /\ ev.kind = "timer" /\ ev.tk = "drain" /\ ev.correct >= 1
  /\ keyBuffer # <<>>
  /\ keyBuffer[1].age >= StepMs /\ keyBuffer[1].age < BUFFER_ITEM_TTL_MS
  /\ ev.consumedAge >= 0 /\ ev.consumedAge < keyBuffer[1].age

\* the task called setPhase and the signature (word, phase kind, sub-index)
\* after it equals the one before
SameSignature ==
  ev'.phaseSet /\ AutoKey(wordIndex', phase') = AutoKey(wordIndex, phase)

\* C20: a task that sets the phase again to one with the same signature
\* starts no entry audio and leaves the animation step as it was.
C20_ReentryIdempotent ==
  [][SameSignature => (ev'.entryAudio = 0 /\ blendHighlightStep' = blendHighlightStep)]_vars

\* BlendPrefix(k) was set again while its animation was under way: no audio
\* started and the step is still the one reached
C20_Witness ==
  /\ ev.phaseSet /\ ev.entryAudio = 0
  /\ phase.type = "blend_prefix" /\ blendHighlightStep >= 1
  /\ lastAuto = AutoKey(wordIndex, phase)

\* C21: no timer outlives the phase it was scheduled under: in every settled
\* state each pending timer was scheduled after the last change of phase
\* and the last word reset, so timers of two phases are never pending
\* together.
C21_TimersOfOnePhase ==
  \A i \in 1..Len(timers) : ~timers[i].stale

\* the position of the expected letter within the phase
Pos == IF variant = "immediate" THEN Len(typedBuffer) ELSE typingCurrentIndex

\* the letter that is expected after j - 1 correct keys were handled,
\* counted from the state the task started in
ExpectedAfter(j) ==
  IF phase.type = "type_prefix"
  THEN IF typingCurrentIndex + j <= phase.n
       THEN letters(wordIndex)[typingCurrentIndex + j] ELSE NoLetter
  ELSE IF phase.type = "click_letter" /\ phase.n + j <= (IF phase.n = 0 THEN 2 ELSE phase.n + 1)
       THEN letters(wordIndex)[phase.n + j] ELSE NoLetter

AdvanceTimerPending(ts) ==
  \E i \in 1..Len(ts) : ts[i].kind \in {"advClick", "advType"}

\* C22: a key event with the expected letter leaves the expected position
\* advanced (a new phase, or the next index of the prefix) and schedules no
\* advance timer; and within one task every scan of processBuffer that
\* consumes a key compares with the letter expected after the consumptions
\* before it.
C22_AdvancesImmediately ==
  /\ [][(ev'.kind = "key" /\ phase.type \in {"click_letter", "type_prefix"}
          /\ ev'.key = ExpectedNow)
         => (/\ phase' # phase \/ (Pos' > Pos)
             /\ ~AdvanceTimerPending(timers'))]_vars
  /\ [][\A j \in 1..Len(ev'.judged) : ev'.judged[j] = ExpectedAfter(j)]_vars

\* C23: in the variants that have the illustration, in every settled state
\* showImage is TRUE exactly when the phase is BlendPrefix(3) or
\* TypePrefix(3).
C23_ImageTiedToFullWord ==
  variant # "immediate"
    => (showImage <=> (phase.type \in {"blend_prefix", "type_prefix"} /\ phase.n = 3))

\* the word advanced out of TypePrefix(3), where the illustration was
\* shown, and the illustration is hidden again
C23_Witness ==
  /\ variant # "immediate" /\ ev.reset /\ ev.complete = 3
  /\ phase = ClickLetter(0) /\ wordIndex = 1 /\ ~showImage

\* the state of the drill: everything but the audio and the history of the
\* last task
drill == <<variant, wordIndex, phase, typedBuffer, blendHighlightStep,
           typingCurrentIndex, showImage, keyBuffer, lastKey, lastAuto,
           autoCleanup, timers>>

\* C24: phase progression does not depend on audio: an audio event (a clip
\* ends or fails) changes nothing of the drill; whatever the audio is doing
\* (playing, failed, replaced by speech, never coming back), a key event
\* with the expected letter that the repeat guard lets through is consumed
\* as a correct key, and the blend
\* phase ends k seconds and 100 ms after it began.
C24_ProgressIgnoresAudio ==
  /\ [][ev'.kind = "audio" => UNCHANGED drill]_vars
  /\ [][(Handled /\ ~Repeat /\ ev'.key = getExpectedLetter) => ev'.correct >= 1]_vars
  /\ [][(phase.type = "blend_prefix" /\ phase' # phase)
          => (/\ phase' = TypePrefix(phase.n)
              /\ blendClock = phase.n * StepMs + TransitionMs)]_vars
  /\ [](phase.type = "blend_prefix" => blendClock <= phase.n * StepMs + TransitionMs)

\* the clip of BlendPrefix(2) never came back, and the drill has gone on to
\* TypePrefix(2) and taken the first letter
C24_Witness ==
  /\ audio = "never" /\ phase = TypePrefix(2) /\ typingCurrentIndex = 1
  /\ ev.kind = "key" /\ ev.correct = 1

\* C25: a key event whose key, in upper case, is not one of the 26 letters
\* changes nothing: no state of the mounted game, no buffer entry, no timer,
\* no cue and no other audio.
C25_NonLetterIgnored ==
  [][(ev'.kind = "key" /\ ev'.key \notin LETTERS)
       => (/\ UNCHANGED <<drill, audio, outside>>
           /\ ev'.correct = 0 /\ ev'.wrong = 0 /\ ev'.entryAudio = 0)]_vars

\* a non-letter key was pressed in TypePrefix(k) with keys in the buffer
C25_Witness ==
  /\ ev.kind = "key" /\ ev.key \notin LETTERS
  /\ variant = "typeahead" /\ phase.type = "type_prefix" /\ keyBuffer # <<>>

Range(q) == {q[i] : i \in 1..Len(q)}

\* C29: the calls of next() numbered j*n+1 .. (j+1)*n return each of the n
\* items exactly once: within such a run no item is returned twice and
\* only items of the list are returned, a complete run has returned them
\* all, and the deck holds exactly the items not yet returned in the run
\* (it is refilled with all items when exhausted).
C29_EachItemOncePerPass ==
  items # <<>>
    => /\ \A a, b \in 1..Len(dealt) : a # b => dealt[a] # dealt[b]
       /\ Range(dealt) \subseteq Range(items)
       /\ Len(dealt) = Len(items) => Range(dealt) = Range(items)
       /\ Range(deck) = Range(items) \ Range(dealt)
       /\ Len(deck) = Len(items) - Len(dealt)

\* the first call of a second pass: the deck was exhausted and refilled, and
\* the item returned is not the one the last pass ended with
C29_Witness ==
  /\ variant = "deck" /\ Len(items) = 3 /\ Len(dealt) = 1 /\ Len(deck) = 2
  /\ ev.kind = "next" /\ ev.tk = "refill" /\ ev.key = dealt[1] /\ dealt[1] = items[1]

Starts(c, ext) == Cardinality({i \in 1..Len(c.els) : c.els[i].ext = ext})

\* the format was tried and failed: its element fired error or its play()
\* was rejected
Failed(c, ext) ==
  \E i \in 1..Len(c.els) :
    c.els[i].ext = ext /\ (c.els[i].error \/ c.els[i].play = "rejected")

SomeEnded(c) == \E i \in 1..Len(c.els) : c.els[i].ended

\* C26: one playClip call tries m4a first and mp3 second, makes and starts
\* at most one element per format, and its promise is resolved exactly when
\* a playback has ended or both formats have failed.
C26_ClipFallback ==
  variant = "clip"
    => /\ clip.els[1].ext = "m4a"
       /\ \A i \in 2..Len(clip.els) : clip.els[i].ext = "mp3" /\ Failed(clip, "m4a")
       /\ Starts(clip, "m4a") <= 1 /\ Starts(clip, "mp3") <= 1
       /\ (clip.resolves >= 1) <=> (SomeEnded(clip) \/ (Failed(clip, "m4a") /\ Failed(clip, "mp3")))

\* the elements of a kind that are tracked, or are playing or about to play
Live(kind) ==
  {i \in 1..Len(sfx.els) :
     /\ sfx.els[i].kind = kind
     /\ sfx.current[kind] = i \/ sfx.els[i].sound \in {"starting", "playing"}}

\* C28: for each feedback kind at most one element is playing or tracked,
\* and a trigger that arrives while an element of the kind is tracked makes
\* no new element and tracks the same one.
C28_OneSfxPerKind ==
  /\ [](\A kind \in SfxKinds : Cardinality(Live(kind)) <= 1)
  /\ [][(ev'.kind = "trigger" /\ sfx.current[ev'.key] # 0)
          => (Len(sfx'.els) = Len(sfx.els) /\ sfx'.current = sfx.current)]_vars

\* nothing is playing and no play() is pending: no event of the element is
\* to come unless playLetterSound is called again
LetterQuiet == letterSound.el # "playing" /\ ~SomePlayPending

\* C27: every promise returned by playLetterSound is resolved by the time
\* the playback it started is over: whenever the element is quiet, no call's
\* promise is still pending (a promise pending then stays pending, because a
\* later call puts its own resolve in el.onended).
C27_LetterPromiseResolved ==
  (variant = "letterSound" /\ LetterQuiet)
    => \A i \in 1..Len(letterSound.calls) : letterSound.calls[i].promise = "resolved"

\* the file has been written by this run
Overwritten(file) == file \in norm.written

\* createBackup has copied every file of toProcess
BackupComplete ==
  /\ norm.backupDir
  /\ norm.copied = Len(norm.todo)
  /\ \A k \in 1..Len(norm.todo) : norm.backup[norm.todo[k]] = norm.orig[norm.todo[k]]

\* C30: in a run that is not dry, a file is written only when the backup of
\* every file to process is complete, and the backup directory then holds the
\* file's copy with the data it had at the start of the run.
C30_BackupBeforeOverwrite ==
  (variant = "normalize" /\ ~norm.dry)
    => \A file \in AllFiles :
         Overwritten(file) => (BackupComplete /\ norm.backup[file] = norm.orig[file])

\* two files were to be processed, one of them was rewritten with normalized
\* data, and the run is over
C30_Witness ==
  /\ variant = "normalize" /\ ~norm.dry /\ norm.pc = "done"
  /\ Len(norm.todo) >= 2
  /\ \E file \in AllFiles : Overwritten(file) /\ norm.disk[file].data = "normalized"
  /\ ev.tk = "saved"

C32_SecondRunWritesNothing ==
  (variant = "normalize" /\ norm.run = 2) => \A file \in AllFiles : ~Overwritten(file)

\* the files whose normalizeFile call has not returned yet
InProgress == {f \in AllFiles : norm.job[f] \notin Returned \cup {"none"}}

\* C33 as stated: at most MAX_CONCURRENT normalizeFile calls are in progress,
\* and a batch starts only when no call is in progress, every file of the
\* batches before has its result, and saveManifest has been called once for
\* each batch before.
C33_BatchAfterSave ==
  /\ [](variant = "normalize" => Cardinality(InProgress) <= MAX_CONCURRENT)
  /\ [][(variant = "normalize" /\ ev'.tk = "batch")
          => /\ InProgress = {}
             /\ Len(norm.results) = norm.i
             /\ norm.saves = norm.batches]_vars

\* C33 amended: the same, with the manifest saved after each batch in the
\* runs that are not dry; a dry run never saves it.
C33_BatchAfterPrevious ==
  /\ [](variant = "normalize" => Cardinality(InProgress) <= MAX_CONCURRENT)
  /\ [][(variant = "normalize" /\ ev'.tk = "batch")
          => /\ InProgress = {}
             /\ Len(norm.results) = norm.i
             /\ IF norm.dry THEN norm.saves = 0
                ELSE norm.saves = norm.batches /\ norm.saved = norm.manifest]_vars

\* the second batch of a run that is not dry is in progress, after a first
\* batch of MAX_CONCURRENT files of which one was rewritten and saved in the
\* manifest file
C33_Witness ==
  /\ variant = "normalize" /\ ~norm.dry /\ norm.batches = 2
  /\ InProgress # {}
  /\ Len(norm.results) = MAX_CONCURRENT
  /\ \E f \in norm.written : norm.saved[f] # NoEntry

\* C38: a file whose normalizeFile call returned an error result has the
\* data it had before the call and no <file>.tmp, and processFiles goes on
\* (the error is a result, not a throw).
C38_ErrorLeavesFile ==
  variant = "normalize"
    => \A file \in AllFiles :
         norm.job[file] = "error"
           => /\ norm.disk[file].data = norm.orig[file]
              /\ file \notin norm.tmp
              /\ norm.pc = "running"

\* the number of keys a phase takes: k for TypePrefix(k), one for
\* ClickLetter(i), none for BlendPrefix(k)
Required(ph) ==
  IF ph.type = "type_prefix" THEN ph.n ELSE IF ph.type = "click_letter" THEN 1 ELSE 0

\* C34: one expected position is satisfied by exactly one key: the scans of
\* one task that consume a key are for different letters of the word, a
\* phase never has more keys accepted than it takes, and when it is left
\* (TypePrefix(k), ClickLetter(i)) exactly k keys, or one, were accepted
\* since it was entered.
C34_OneKeyPerPosition ==
  /\ [][\A i, j \in 1..Len(ev'.judged) : i # j => ev'.judged[i] # ev'.judged[j]]_vars
  /\ [](accepted >= 0 => accepted <= Required(phase))
  /\ [][(accepted >= 0 /\ (phase' # phase \/ wordIndex' # wordIndex \/ ev'.reset))
          => accepted + ev'.correct = Required(phase)]_vars

\* an announcement is set
Announced == announcement.text \in {"Correct", "Try again"}

\* C39: where announcements are followed: a task that plays a feedback cue
\* leaves its announcement set; a set announcement has a clear timer due
\* ClearMs after it was set; and an announcement goes from set to empty only
\* when it has been set for ClearMs, so no timer of an earlier announcement
\* clears it before.
C39_AnnouncementShownFully ==
  /\ [][(announcement.text # "off" /\ ev'.correct + ev'.wrong > 0)
          => announcement' = [text |-> IF ev'.correct > 0 THEN "Correct" ELSE "Try again",
                              shown |-> 0]]_vars
  /\ [](Announced => \E i \in 1..Len(timers) :
                        /\ timers[i].kind = "clear"
                        /\ timers[i].rem = ClearMs - announcement.shown)
  /\ [][(Announced /\ announcement'.text = "") => announcement.shown = ClearMs]_vars

\* the pending timers of the blend animation: the steps, the red timer and
\* the nested transition timer
BlendPending(ts) == SelectSeq(ts, LAMBDA t : t.kind \in {"step", "red", "transition"})

\* C35: a task that sets the phase again with the same signature while
\* BlendPrefix(k) is running leaves the pending timers of the animation as
\* they were: none cancelled, none added.
C35_ReentryKeepsBlendTimers ==
  [][(SameSignature /\ phase.type = "blend_prefix")
       => BlendPending(timers') = BlendPending(timers)]_vars

\* C36: a task that advances the word leaves the key buffer and the
\* repeat-guard record empty, and the state is the next word at
\* ClickLetter(0) with typing index 0, an empty typed buffer, animation
\* step 0, the illustration hidden and no blend timer pending.
C36_ResetState ==
  [][(ev'.reset \/ wordIndex' # wordIndex)
       => /\ keyBuffer' = <<>>
          /\ lastKey' = NoKey
          /\ wordIndex' = (wordIndex + 1) % Len(WORDS)
          /\ phase' = ClickLetter(0)
          /\ typingCurrentIndex' = 0
          /\ typedBuffer' = <<>>
          /\ blendHighlightStep' = 0
          /\ ~showImage'
          /\ BlendPending(timers') = <<>>]_vars

\* a key press in the type-ahead variant completed the word: the record that
\* the press itself left for the repeat guard is gone
C36_Witness ==
  /\ variant = "typeahead"
  /\ ev.kind = "key"
  /\ ev.reset
  /\ wordIndex = 1
  /\ phase = ClickLetter(0)
  /\ keyBuffer = <<>>
  /\ lastKey = NoKey

\* the pending callbacks of handleKey that will call deck.next()
PendingDraws == Len(SelectSeq(timers, LAMBDA t : t.kind = "lgNext"))

\* C37: in the letter game one displayed target causes one draw from the
\* deck: at most one callback that calls deck.next() is pending, a draw
\* follows a correct answer to the target on display and leaves no second
\* draw pending for it, and a task of a wrong key leaves the target as it is.
C37_OneDrawPerTarget ==
  /\ [](variant = "letters" => PendingDraws <= 1)
  /\ [][(variant = "letters" /\ ev'.kind = "timer" /\ dealt' # dealt)
          => PendingDraws = 1]_vars
  /\ [][(variant = "letters" /\ ev'.kind = "key" /\ ev'.wrong > 0)
          => lgTarget' = lgTarget]_vars

====
